---- MODULE Spec2Model ----
(***************************************************************************)
(* Offline operation queue and synchronizer (offlineQueue slice and        *)
(* OfflineSyncService) and the realtime channel (webSocket slice and       *)
(* PharmaceuticalWebSocketService) of the PharmaFlow frontend.             *)
(*                                                                         *)
(* The event loop is single threaded: a handler runs to its next await.    *)
(* Every action below is one such run: all the dispatches a handler makes  *)
(* before it suspends (or returns) happen in one step.  A pending fetch    *)
(* is a drain pass waiting in phase "probe" or "send"; its response is a   *)
(* later step.                                                             *)
(***************************************************************************)
EXTENDS Integers, Sequences, FiniteSets, TLC

(***************************************************************************)
(* Bounds of the model.                                                    *)
(***************************************************************************)
MaxOps == 2
MaxPasses == 2
MaxSends == 3
MaxDrainOps == 11
MaxTime == 1
MaxSockets == 3
MaxReconnects == 6
MaxIntervals == 3
MaxMemory == 21
MaxPending == 2
MaxGets == 2
MaxClock == 3
MaxEvictions == 3
MaxStatsGets == 4
MaxFrames == 2

(***************************************************************************)
(* OperationPriority                                                       *)
(***************************************************************************)
LOW == 1
MEDIUM == 2
HIGH == 3
CRITICAL == 4

OperationPriority == {LOW, MEDIUM, HIGH, CRITICAL}

\* initialState.maxConnectionRetries
maxConnectionRetries == 3

\* addToQueue: maxAttempts of every queue item
maxAttempts == 3

\* performSync: const batchSize
batchSize == 10

OfflineOperationType ==
  { "create_customer", "update_customer", "update_customer_tier",
    "assign_territory", "create_dgda_submission", "update_submission_status",
    "upload_document", "record_campaign_interaction", "update_campaign_status",
    "log_marketing_activity", "sync_analytics_data",
    "update_performance_metrics", "log_audit_entry" }

\* The enum's string values, character by character (String.includes is
\* case sensitive and works on these).
EnumValue(type) ==
  CASE type = "create_customer" ->
       <<"c","r","e","a","t","e","_","c","u","s","t","o","m","e","r">>
    [] type = "update_customer" ->
       <<"u","p","d","a","t","e","_","c","u","s","t","o","m","e","r">>
    [] type = "update_customer_tier" ->
       <<"u","p","d","a","t","e","_","c","u","s","t","o","m","e","r","_","t","i","e","r">>
    [] type = "assign_territory" ->
       <<"a","s","s","i","g","n","_","t","e","r","r","i","t","o","r","y">>
    [] type = "create_dgda_submission" ->
       <<"c","r","e","a","t","e","_","d","g","d","a","_","s","u","b","m","i","s","s","i","o","n">>
    [] type = "update_submission_status" ->
       <<"u","p","d","a","t","e","_","s","u","b","m","i","s","s","i","o","n","_","s","t","a","t","u","s">>
    [] type = "upload_document" ->
       <<"u","p","l","o","a","d","_","d","o","c","u","m","e","n","t">>
    [] type = "record_campaign_interaction" ->
       <<"r","e","c","o","r","d","_","c","a","m","p","a","i","g","n","_","i","n","t","e","r","a","c","t","i","o","n">>
    [] type = "update_campaign_status" ->
       <<"u","p","d","a","t","e","_","c","a","m","p","a","i","g","n","_","s","t","a","t","u","s">>
    [] type = "log_marketing_activity" ->
       <<"l","o","g","_","m","a","r","k","e","t","i","n","g","_","a","c","t","i","v","i","t","y">>
    [] type = "sync_analytics_data" ->
       <<"s","y","n","c","_","a","n","a","l","y","t","i","c","s","_","d","a","t","a">>
    [] type = "update_performance_metrics" ->
       <<"u","p","d","a","t","e","_","p","e","r","f","o","r","m","a","n","c","e","_","m","e","t","r","i","c","s">>
    [] type = "log_audit_entry" ->
       <<"l","o","g","_","a","u","d","i","t","_","e","n","t","r","y">>

\* String.prototype.includes(needle): needle occurs as a contiguous run.
Includes(hay, needle) ==
  \E i \in 0..(Len(hay) - Len(needle)) :
     \A j \in 1..Len(needle) : hay[i + j] = needle[j]

\* context?.dgdaContext?.complianceRequired for the shapes a caller can pass:
\* no dgdaContext, a dgdaContext without the flag, the flag false, the flag true.
DgdaContexts == {"absent", "noflag", "false", "true"}

ComplianceRequired(ctx) == ctx = "true"

calculatePriority(type, ctx) ==
  IF Includes(EnumValue(type), <<"D","G","D","A">>) \/ ComplianceRequired(ctx)
    THEN CRITICAL
  ELSE IF Includes(EnumValue(type), <<"C","U","S","T","O","M","E","R">>)
    THEN HIGH
  ELSE IF \/ Includes(EnumValue(type), <<"A","N","A","L","Y","T","I","C","S">>)
          \/ Includes(EnumValue(type), <<"M","E","T","R","I","C","S">>)
    THEN LOW
  ELSE MEDIUM

(***************************************************************************)
(* State                                                                   *)
(***************************************************************************)
VARIABLES
  offlineQueue,   \* the offlineQueue slice (OfflineQueueState)
  passes,         \* performSync invocations suspended at an await, by slot
  startupProbe,   \* the initial connectivity check of initialize() is pending
  now,            \* the clock read by new Date()
  nextId,         \* generateQueueId: ids are unique; the n-th enqueue gets n
  sentOk,         \* history: per operation id, requests answered 2xx
  sentFail,       \* history: per operation id, requests that failed
  prioIn,         \* calculatePriority: the call's arguments
  prioOut,        \* calculatePriority: the value returned, once it has returned
  webSocket,      \* the webSocket slice (WebSocketState)
  service,        \* PharmaceuticalWebSocketService: ws, reconnectTimer, heartbeatTimer
  sockets,        \* the WebSocket objects the service created, by readyState
  intervals,      \* running setInterval heartbeats
  isAuthenticated,        \* state.auth: authenticated with an access token
  explicitlyDisconnected, \* history: disconnect() was called, connect() not since
  statusTrail,    \* history: the statuses the last handler's dispatches gave the slice, in order
  events,         \* webSocket slice: events, newest first
  arrived,        \* history: the messages of a declared type that arrived, newest first
  cleared,        \* history: ids of the operations clearQueue removed from the live queue
  subscriptions,  \* webSocket slice: subscriptions
  control,        \* the last subscribe() or unsubscribe(): its arguments, and whether send() handed the message to the transport
  cache,          \* the cache slice (CacheState)
  returned,       \* the last get(): its key and the value it returned
  stats,          \* the value the last getStats() returned
  warned          \* the last console.warn of the cache: message and key

qvars == <<offlineQueue, passes, startupProbe, now, nextId, sentOk, sentFail>>

pvars == <<prioIn, prioOut>>

wvars == <<webSocket, service, sockets, intervals, isAuthenticated,
           explicitlyDisconnected, statusTrail>>

hvars == <<events, arrived, cleared>>

subvars == <<subscriptions, control>>

cvars == <<cache, returned, stats, warned>>

nonqvars == <<pvars, hvars, wvars, subvars, cvars>>

vars == <<qvars, pvars, hvars, wvars, subvars, cvars>>

\* SyncStatus
OFFLINE == "offline"
SYNCING == "syncing"
ONLINE == "online"
ERROR == "error"

SyncStatus == {OFFLINE, SYNCING, ONLINE, ERROR}

ConflictStrategies == {"server_wins", "client_wins", "manual"}

\* undefined / null
NULL == "undefined"

\* a timestamp that is not set
NoTime == -1

\* calculatePriority has not returned
NoPriority == 0

Slots == 1..MaxPasses

Range(s) == {s[i] : i \in DOMAIN s}

\* The inputs of enqueue explored by the queue specification: a type with
\* its dgdaContext, and the payload.
EnqueueInputs ==
  { <<"update_customer", "absent", "p1">>, <<"upload_document", "true", "p2">> }

\* What the server can answer to an operation's request: 2xx, 409 with or
\* without a parseable serverData, another HTTP error, or fetch rejecting.
ServerStates == {"srv"}

Responses ==
  {[kind |-> "ok", status |-> 200, serverData |-> NULL]}
  \cup {[kind |-> "http", status |-> 409, serverData |-> sd] : sd \in ServerStates}
  \cup {[kind |-> "http", status |-> 500, serverData |-> NULL]}
  \cup {[kind |-> "throw", status |-> 0, serverData |-> NULL]}

ProbeOutcomes == {"ok", "notok", "throw"}

(***************************************************************************)
(* offlineQueueSlice: initial state and reducers                           *)
(***************************************************************************)
initialState ==
  [ items |-> <<>>,
    syncStatus |-> OFFLINE,
    isAutoSyncEnabled |-> TRUE,
    syncInProgress |-> FALSE,
    connectionRetryCount |-> 0,
    strategy |-> "server_wins",
    conflicts |-> <<>>,
    corruptedItems |-> <<>>,
    pendingUploads |-> <<>> ]

\* findIndex with <= in place of <: the new item goes ahead of its equals.
FindInsertIndexAtOrBelow(its, prio) ==
  LET lower == {i \in DOMAIN its : its[i].priority <= prio}
  IN IF lower = {} THEN -1
     ELSE CHOOSE i \in lower : \A j \in lower : i <= j

\* state.items.findIndex(item => item.priority < queueItem.priority)
FindInsertIndex(its, prio) ==
  LET lower == {i \in DOMAIN its : its[i].priority < prio}
  IN IF lower = {} THEN -1
     ELSE CHOOSE i \in lower : \A j \in lower : i <= j

\* items.splice(index, 0, item)
Splice(its, index, item) ==
  [i \in 1..(Len(its) + 1) |->
     IF i < index THEN its[i]
     ELSE IF i = index THEN item
     ELSE its[i - 1]]

addToQueue(state, id, type, ctx, data, time) ==
  LET queueItem ==
        [ id |-> id,
          type |-> type,
          priority |-> calculatePriority(type, ctx),
          data |-> data,
          createdAt |-> time,
          attemptCount |-> 0,
          maxAttempts |-> maxAttempts,
          lastAttempt |-> NoTime,
          error |-> NULL,
          dgdaContext |-> ctx ]
      insertIndex == FindInsertIndex(state.items, queueItem.priority)
  IN [state EXCEPT !.items =
        IF insertIndex = -1 THEN Append(state.items, queueItem)
        ELSE Splice(state.items, insertIndex, queueItem)]

removeFromQueue(state, id) ==
  [state EXCEPT !.items = SelectSeq(state.items, LAMBDA it : it.id # id)]

\* find() returns the first item with the id; only that one is updated.
updateQueueItem(state, id, attemptCount, error, lastAttempt) ==
  LET hits == {i \in DOMAIN state.items : state.items[i].id = id}
  IN IF hits = {} THEN state
     ELSE LET k == CHOOSE i \in hits : \A j \in hits : i <= j
          IN [state EXCEPT !.items[k].attemptCount = attemptCount,
                           !.items[k].error = error,
                           !.items[k].lastAttempt = lastAttempt]

\* setSyncStatus that never clears syncInProgress
setSyncStatusSticky(state, status) ==
  [state EXCEPT
     !.syncStatus = status,
     !.syncInProgress = (@ \/ status = SYNCING),
     !.connectionRetryCount = IF status = ONLINE THEN 0 ELSE @]

setSyncStatus(state, status) ==
  [state EXCEPT
     !.syncStatus = status,
     !.syncInProgress = (status = SYNCING),
     !.connectionRetryCount = IF status = ONLINE THEN 0 ELSE @]

toggleAutoSync(state) ==
  [state EXCEPT !.isAutoSyncEnabled = ~@]

incrementRetryCount(state) ==
  [state EXCEPT !.connectionRetryCount = @ + 1]

resetRetryCount(state) ==
  [state EXCEPT !.connectionRetryCount = 0]

addConflict(state, conflict) ==
  [state EXCEPT !.conflicts = Append(@, conflict)]

resolveConflict(state, conflictId) ==
  [state EXCEPT !.conflicts = SelectSeq(@, LAMBDA c : c.id # conflictId)]

setConflictStrategy(state, strategy) ==
  [state EXCEPT !.strategy = strategy]

addPendingUpload(state, path) ==
  IF path \in Range(state.pendingUploads) THEN state
  ELSE [state EXCEPT !.pendingUploads = Append(@, path)]

clearQueue(state) ==
  [state EXCEPT
     !.items = <<>>,
     !.pendingUploads = <<>>,
     !.conflicts = <<>>,
     !.corruptedItems = <<>>]

markAsCorrupted(state, id) ==
  IF id \in Range(state.corruptedItems) THEN state
  ELSE [state EXCEPT !.corruptedItems = Append(@, id)]

(***************************************************************************)
(* OfflineSyncService                                                      *)
(***************************************************************************)
\* the comparator with the priorities the other way round
compareLowestFirst(a, b) ==
  IF a.priority # b.priority
    THEN a.priority - b.priority
    ELSE a.createdAt - b.createdAt

\* The comparator of sortItemsByPriorityAndDependencies: negative when a
\* goes first.
compare(a, b) ==
  IF a.priority # b.priority
    THEN b.priority - a.priority
    ELSE a.createdAt - b.createdAt

\* Array.prototype.sort is stable: an element goes behind every element it
\* does not have to precede.
InsertSorted(sorted, x) ==
  LET after == {i \in DOMAIN sorted : compare(sorted[i], x) > 0}
  IN IF after = {} THEN Append(sorted, x)
     ELSE Splice(sorted, CHOOSE i \in after : \A j \in after : i <= j, x)

RECURSIVE SortPrefix(_, _)
SortPrefix(its, n) ==
  IF n = 0 THEN <<>>
  ELSE InsertSorted(SortPrefix(its, n - 1), its[n])

sortItemsByPriorityAndDependencies(its) == SortPrefix(its, Len(its))

Min(a, b) == IF a <= b THEN a ELSE b

\* sortedItems.slice(i, i + batchSize)
Batch(sortedItems, i) ==
  SubSeq(sortedItems, i + 1, Min(i + batchSize, Len(sortedItems)))

\* A performSync invocation: where it is suspended, the items it read when
\* it was called (sorted once the probe has answered), the offset i of the
\* current batch and the position k of the awaited item in that batch.
IdlePass == [pc |-> "idle", list |-> <<>>, i |-> 0, k |-> 0]

FreeSlots == {s \in Slots : passes[s].pc = "idle"}

\* The item whose response pass p awaits.
CurrentItem(p) == Batch(p.list, p.i)[p.k]

\* The items as the pass holds them: the fields it reads later.
Snapshot(its) ==
  [n \in DOMAIN its |->
     [ id |-> its[n].id, priority |-> its[n].priority, data |-> its[n].data,
       createdAt |-> its[n].createdAt, attemptCount |-> its[n].attemptCount,
       maxAttempts |-> its[n].maxAttempts ]]

\* testConnectivity, once the probe has answered
testConnectivity(state, outcome) ==
  CASE outcome = "ok" -> resetRetryCount(setSyncStatus(state, ONLINE))
    [] outcome = "notok" -> setSyncStatus(state, ERROR)
    [] outcome = "throw" -> incrementRetryCount(setSyncStatus(state, OFFLINE))

\* the guard without the retry ceiling
SyncGuardNoCeiling(state) ==
  /\ ~state.syncInProgress
  /\ Len(state.items) # 0

\* performSync up to its first await: the guards, then SYNCING.
SyncGuard(state) ==
  /\ ~(state.syncInProgress \/ state.connectionRetryCount >= maxConnectionRetries)
  /\ Len(state.items) # 0

\* performSync called on state: either it returns at a guard, or it
\* dispatches SYNCING and suspends on the probe in a free slot.
performSync(state) ==
  IF SyncGuard(state)
    THEN /\ FreeSlots # {}
         /\ LET s == CHOOSE f \in FreeSlots : \A g \in FreeSlots : f <= g
            IN passes' = [passes EXCEPT ![s] =
                            [pc |-> "probe", list |-> Snapshot(state.items), i |-> 0, k |-> 0]]
         /\ offlineQueue' = setSyncStatus(state, SYNCING)
    ELSE /\ offlineQueue' = state
         /\ passes' = passes

\* The message of the Error that processBatch catches.
ErrorMessage(resp) ==
  IF resp.kind = "throw" THEN "Failed to fetch"
  ELSE IF resp.status = 409 THEN "HTTP 409" ELSE "HTTP 500"

\* processQueueItem that records no conflict on a 409
processQueueItemNoConflict(state, item, resp) ==
  IF resp.kind = "ok" THEN removeFromQueue(state, item.id) ELSE state

\* processQueueItem after the response: what it dispatches before it
\* returns or throws.
processQueueItem(state, item, resp) ==
  IF resp.kind = "ok" THEN removeFromQueue(state, item.id)
  ELSE IF resp.kind = "http" /\ resp.status = 409
    THEN addConflict(state,
           [ id |-> item.id,
             clientData |-> item.data,
             serverData |-> resp.serverData,
             conflictType |-> "data_conflict" ])
  ELSE state

\* the catch block without markAsCorrupted
processBatchCatchUnmarked(state, item, resp, time) ==
  LET updated == updateQueueItem(state, item.id, item.attemptCount + 1,
                                 ErrorMessage(resp), time)
  IN IF item.attemptCount + 1 >= item.maxAttempts
       THEN removeFromQueue(updated, item.id)
       ELSE updated

\* The catch block of processBatch.
processBatchCatch(state, item, resp, time) ==
  LET updated == updateQueueItem(state, item.id, item.attemptCount + 1,
                                 ErrorMessage(resp), time)
  IN IF item.attemptCount + 1 >= item.maxAttempts
       THEN markAsCorrupted(removeFromQueue(updated, item.id), item.id)
       ELSE updated

\* One iteration of the loop of processBatch, from the response on.
processItem(state, item, resp, time) ==
  IF resp.kind = "ok" THEN processQueueItem(state, item, resp)
  ELSE processBatchCatch(processQueueItem(state, item, resp), item, resp, time)

\* The pass after the item at (i, k): the next item of the batch, the first
\* item of the next batch, or the end of the loop.
Advance(p) ==
  IF p.k < Len(Batch(p.list, p.i)) THEN [p EXCEPT !.k = @ + 1]
  ELSE IF p.i + batchSize < Len(p.list)
    THEN [p EXCEPT !.i = @ + batchSize, !.k = 1]
  ELSE IdlePass

(***************************************************************************)
(* Actions of the queue                                                    *)
(***************************************************************************)
\* queueOperation / addToQueue
Enqueue(limit) ==
  /\ nextId <= limit
  /\ \E in \in EnqueueInputs :
       offlineQueue' = addToQueue(offlineQueue, nextId, in[1], in[2], in[3], now)
  /\ nextId' = nextId + 1
  /\ UNCHANGED <<passes, startupProbe, now, sentOk, sentFail, nonqvars>>

\* time passes
Tick ==
  /\ now < MaxTime
  /\ now' = now + 1
  /\ UNCHANGED <<offlineQueue, passes, startupProbe, nextId, sentOk, sentFail, nonqvars>>

\* the setInterval callback of setupAutoSync
TimerFire ==
  /\ IF offlineQueue.isAutoSyncEnabled /\ ~offlineQueue.syncInProgress
       THEN performSync(offlineQueue)
       ELSE UNCHANGED <<offlineQueue, passes>>
  /\ UNCHANGED <<startupProbe, now, nextId, sentOk, sentFail, nonqvars>>

\* forcSync
ForceSync ==
  /\ performSync(offlineQueue)
  /\ UNCHANGED <<startupProbe, now, nextId, sentOk, sentFail, nonqvars>>

\* window 'online'
OnlineEvent ==
  /\ performSync(setSyncStatus(offlineQueue, ONLINE))
  /\ UNCHANGED <<startupProbe, now, nextId, sentOk, sentFail, nonqvars>>

\* window 'offline'
OfflineEvent ==
  /\ offlineQueue' = setSyncStatus(offlineQueue, OFFLINE)
  /\ UNCHANGED <<passes, startupProbe, now, nextId, sentOk, sentFail, nonqvars>>

\* the probe started by startConnectivityMonitoring answers
StartupProbeResponse ==
  /\ startupProbe
  /\ startupProbe' = FALSE
  /\ \E outcome \in ProbeOutcomes :
       offlineQueue' = testConnectivity(offlineQueue, outcome)
  /\ UNCHANGED <<passes, now, nextId, sentOk, sentFail, nonqvars>>

\* performSync resumes after `await this.testConnectivity()`
ProbeResponse(s, outcomes) ==
  /\ passes[s].pc = "probe"
  /\ \E outcome \in outcomes :
       LET probed == testConnectivity(offlineQueue, outcome)
       IN IF outcome = "ok"
            THEN /\ offlineQueue' = probed
                 /\ passes' = [passes EXCEPT ![s] =
                      [ pc |-> "send",
                        list |-> sortItemsByPriorityAndDependencies(passes[s].list),
                        i |-> 0, k |-> 1 ]]
            ELSE /\ offlineQueue' = setSyncStatus(probed, OFFLINE)
                 /\ passes' = [passes EXCEPT ![s] = IdlePass]
  /\ UNCHANGED <<startupProbe, now, nextId, sentOk, sentFail, nonqvars>>

\* processBatch resumes after `await this.processQueueItem(item)`
RECURSIVE SumTo(_, _)
SumTo(f, n) == IF n = 0 THEN 0 ELSE f[n] + SumTo(f, n - 1)

\* requests answered so far
Answered == SumTo(sentOk, Len(sentOk)) + SumTo(sentFail, Len(sentFail))

ItemResponse(s, responses, budget) ==
  /\ passes[s].pc = "send"
  /\ Answered < budget
  /\ \E resp \in responses :
       LET item == CurrentItem(passes[s])
           next == Advance(passes[s])
           done == processItem(offlineQueue, item, resp, now)
       IN /\ passes' = [passes EXCEPT ![s] = next]
          /\ offlineQueue' =
               IF next.pc = "idle" THEN setSyncStatus(done, ONLINE) ELSE done
          /\ sentOk' = [sentOk EXCEPT ![item.id] = @ + (IF resp.kind = "ok" THEN 1 ELSE 0)]
          /\ sentFail' = [sentFail EXCEPT ![item.id] = @ + (IF resp.kind = "ok" THEN 0 ELSE 1)]
  /\ UNCHANGED <<startupProbe, now, nextId, nonqvars>>

ToggleAutoSync ==
  /\ offlineQueue' = toggleAutoSync(offlineQueue)
  /\ UNCHANGED <<passes, startupProbe, now, nextId, sentOk, sentFail, nonqvars>>

ResetRetryCount ==
  /\ offlineQueue.connectionRetryCount > 0
  /\ offlineQueue' = resetRetryCount(offlineQueue)
  /\ UNCHANGED <<passes, startupProbe, now, nextId, sentOk, sentFail, nonqvars>>

SetConflictStrategy ==
  /\ \E st \in ConflictStrategies :
       offlineQueue' = setConflictStrategy(offlineQueue, st)
  /\ UNCHANGED <<passes, startupProbe, now, nextId, sentOk, sentFail, nonqvars>>

ResolveConflict ==
  /\ \E c \in Range(offlineQueue.conflicts) :
       offlineQueue' = resolveConflict(offlineQueue, c.id)
  /\ UNCHANGED <<passes, startupProbe, now, nextId, sentOk, sentFail, nonqvars>>

(***************************************************************************)
(* calculatePriority as a call of its own                                  *)
(***************************************************************************)
CalculatePriority ==
  /\ prioOut = NoPriority
  /\ prioOut' = calculatePriority(prioIn.type, prioIn.ctx)
  /\ UNCHANGED <<prioIn, hvars, qvars, wvars, subvars, cvars>>

(***************************************************************************)
(* Cache store: cacheSlice and PharmaceuticalCacheService                  *)
(***************************************************************************)
\* CacheStrategy
PERSISTENT == "persistent"
DYNAMIC == "dynamic"
CRITICAL_STRATEGY == "critical"
REALTIME == "realtime"
TEMPORARY == "temporary"

CacheStrategy == {PERSISTENT, DYNAMIC, CRITICAL_STRATEGY, REALTIME, TEMPORARY}

\* CachePriority (the numbers of OperationPriority)
CachePriority == {LOW, MEDIUM, HIGH, CRITICAL}

\* defaultConfig
defaultConfig ==
  [ maxMemoryUsage |-> 50 * 1024 * 1024,
    integrityCheckEnabled |-> TRUE,
    strategies |->
      [ persistent |-> [defaultTTL |-> 86400, maxSize |-> 1024 * 1024,
                        priority |-> HIGH],
        dynamic |-> [defaultTTL |-> 1800, maxSize |-> 512 * 1024,
                     priority |-> MEDIUM],
        critical |-> [defaultTTL |-> 43200, maxSize |-> 2 * 1024 * 1024,
                      priority |-> CRITICAL],
        realtime |-> [defaultTTL |-> 60, maxSize |-> 256 * 1024,
                      priority |-> LOW],
        temporary |-> [defaultTTL |-> 300, maxSize |-> 128 * 1024,
                       priority |-> LOW] ] ]

\* The cache's initialState.  entries is a function on the keys present.
cacheInitialState ==
  [ entries |-> <<>>,
    metrics |-> [hitCount |-> 0, missCount |-> 0, evictionCount |-> 0,
                 totalRequests |-> 0, memoryUsage |-> 0,
                 lastOptimization |-> NoTime],
    config |-> defaultConfig,
    pendingInvalidations |-> <<>> ]

\* A cached value is given by its JSON.stringify text, a sequence of
\* character codes (all below 128, one byte each).
\* calculateDataSize: the byte length of the JSON text
calculateDataSize(data) == Len(data)

\* A 32-bit integer as its two 16-bit halves <<high, low>> (two's complement),
\* so that no intermediate value leaves the range of the model's integers.
\* ((hash << 5) - hash) + char, then hash & hash: 31 * hash + char modulo 2^32
HashStep(hash, char) ==
  LET low == 31 * hash[2] + char
  IN <<(31 * hash[1] + low \div 65536) % 65536, low % 65536>>

RECURSIVE HashFrom(_, _, _)
HashFrom(hash, str, i) ==
  IF i > Len(str) THEN hash
  ELSE HashFrom(HashStep(hash, str[i]), str, i + 1)

IsNegative(hash) == hash[1] >= 32768

\* the absolute value of a negative 32-bit integer
Negate(hash) ==
  IF hash[2] = 0 THEN <<(65536 - hash[1]) % 65536, 0>>
  ELSE <<65535 - hash[1], 65536 - hash[2]>>

\* the base-36 digits, by value, of a non-negative number given in halves
RECURSIVE Digits36(_)
Digits36(n) ==
  IF n[1] = 0 /\ n[2] < 36 THEN <<n[2]>>
  ELSE LET rest == (n[1] % 36) * 65536 + n[2]
       IN Append(Digits36(<<n[1] \div 36, rest \div 36>>), rest % 36)

\* Number.prototype.toString(36): the sign (as -1) and the base-36 digits
ToString36(hash) ==
  IF IsNegative(hash) THEN <<-1>> \o Digits36(Negate(hash))
  ELSE Digits36(hash)

\* generateChecksum
generateChecksum(data) == ToString36(HashFrom(<<0, 0>>, data, 1))

\* entry.checksum of an entry stored with integrity checking off
NoChecksum == <<>>

\* get(): the null it returns
NoData == <<>>

\* the marker setCacheEntry pushes under memory pressure
MemoryPressureCleanup == "memory_pressure_cleanup"

\* the keys the callers use, in a fixed order
CacheKeys == <<"A", "B", "C">>

KeySet == {CacheKeys[i] : i \in 1..Len(CacheKeys)}

Present(state, key) == key \in DOMAIN state.entries

\* delete state.entries[key]
DeleteEntry(entries, key) ==
  [k \in DOMAIN entries \ {key} |-> entries[k]]

\* state.entries[key] = entry
PutEntry(entries, key, entry) ==
  [k \in DOMAIN entries \cup {key} |-> IF k = key THEN entry ELSE entries[k]]

\* The keys of a set as a sequence.  Object.values enumerates in insertion
\* order; nothing reads the order of pendingInvalidations, so the model
\* enumerates in the order of CacheKeys.
KeysOf(S) == SelectSeq(CacheKeys, LAMBDA k : k \in S)

\* x > y * n / 10, in integers
Above(x, y, tenths) == x * 10 > y * tenths

\* setCacheEntry: entry.size > strategyConfig.maxSize
ExceedsMaxSize(state, data, strategy) ==
  calculateDataSize(data) > state.config.strategies[strategy].maxSize

\* setCacheEntry past its size check; ttl = 0 stands for an absent ttl too
\* (ttl || defaultTTL)
StoreEntry(state, key, data, strategy, ttl, tags, dependencies, time) ==
  LET strategyConfig == state.config.strategies[strategy]
      finalTTL == IF ttl # 0 THEN ttl ELSE strategyConfig.defaultTTL
      entry ==
        [ data |-> data,
          strategy |-> strategy,
          priority |-> strategyConfig.priority,
          lastAccessed |-> time,
          accessCount |-> 1,
          expiryTime |-> time + finalTTL * 1000,
          dependencies |-> dependencies,
          size |-> calculateDataSize(data),
          checksum |-> IF state.config.integrityCheckEnabled
                         THEN generateChecksum(data) ELSE NoChecksum,
          tags |-> tags ]
      memoryUsage == state.metrics.memoryUsage + entry.size
  IN [state EXCEPT
        !.entries = PutEntry(@, key, entry),
        !.metrics.memoryUsage = memoryUsage,
        !.pendingInvalidations =
          IF Above(memoryUsage, state.config.maxMemoryUsage, 8)
            THEN Append(@, MemoryPressureCleanup) ELSE @]

\* setCacheEntry without its size check
setCacheEntryUnchecked(state, key, data, strategy, ttl, tags, dependencies, time) ==
  StoreEntry(state, key, data, strategy, ttl, tags, dependencies, time)

\* setCacheEntry
setCacheEntry(state, key, data, strategy, ttl, tags, dependencies, time) ==
  IF ExceedsMaxSize(state, data, strategy) THEN state
  ELSE StoreEntry(state, key, data, strategy, ttl, tags, dependencies, time)

\* accessCacheEntry without the expiry test
accessCacheEntryNeverExpires(state, key, time) ==
  LET counted == [state EXCEPT !.metrics.totalRequests = @ + 1]
  IN IF Present(state, key)
       THEN [counted EXCEPT
               !.entries[key].lastAccessed = time,
               !.entries[key].accessCount = @ + 1,
               !.metrics.hitCount = @ + 1]
       ELSE [counted EXCEPT !.metrics.missCount = @ + 1]

\* accessCacheEntry
accessCacheEntry(state, key, time) ==
  LET counted == [state EXCEPT !.metrics.totalRequests = @ + 1]
  IN IF Present(state, key)
       THEN IF time > state.entries[key].expiryTime
              THEN [counted EXCEPT
                      !.entries = DeleteEntry(@, key),
                      !.metrics.memoryUsage = @ - state.entries[key].size,
                      !.metrics.missCount = @ + 1]
              ELSE [counted EXCEPT
                      !.entries[key].lastAccessed = time,
                      !.entries[key].accessCount = @ + 1,
                      !.metrics.hitCount = @ + 1]
       ELSE [counted EXCEPT !.metrics.missCount = @ + 1]

\* invalidateCacheEntry without the scheduling of the dependent entries
invalidateCacheEntryNoCascade(state, key) ==
  IF Present(state, key)
    THEN [state EXCEPT
            !.metrics.memoryUsage = @ - state.entries[key].size,
            !.metrics.evictionCount = @ + 1,
            !.entries = DeleteEntry(@, key)]
    ELSE state

\* invalidateCacheEntry counting an eviction for an absent key too
invalidateCacheEntryCounting(state, key) ==
  IF Present(state, key)
    THEN LET entries == DeleteEntry(state.entries, key)
             dependents ==
               {k \in DOMAIN entries : key \in entries[k].dependencies}
         IN [state EXCEPT
               !.metrics.memoryUsage = @ - state.entries[key].size,
               !.metrics.evictionCount = @ + 1,
               !.entries = entries,
               !.pendingInvalidations = @ \o KeysOf(dependents)]
    ELSE [state EXCEPT !.metrics.evictionCount = @ + 1]

\* invalidateCacheEntry
invalidateCacheEntry(state, key) ==
  IF Present(state, key)
    THEN LET entries == DeleteEntry(state.entries, key)
             dependents ==
               {k \in DOMAIN entries : key \in entries[k].dependencies}
         IN [state EXCEPT
               !.metrics.memoryUsage = @ - state.entries[key].size,
               !.metrics.evictionCount = @ + 1,
               !.entries = entries,
               !.pendingInvalidations = @ \o KeysOf(dependents)]
    ELSE state

\* invalidateByTags
invalidateByTags(state, tagsToInvalidate) ==
  LET matching ==
        {k \in DOMAIN state.entries :
           state.entries[k].tags \cap tagsToInvalidate # {}}
  IN [state EXCEPT !.pendingInvalidations = @ \o KeysOf(matching)]

\* the sum of the sizes of the entries with keys in S
RECURSIVE SizeOf(_, _)
SizeOf(entries, S) ==
  IF S = {} THEN 0
  ELSE LET k == CHOOSE x \in S : TRUE
       IN entries[k].size + SizeOf(entries, S \ {k})

\* the entries with keys in S removed, each counted as an eviction
RemoveAll(state, S) ==
  [state EXCEPT
     !.metrics.memoryUsage = @ - SizeOf(state.entries, S),
     !.metrics.evictionCount = @ + Cardinality(S),
     !.entries = [k \in DOMAIN state.entries \ S |-> state.entries[k]]]

\* processPendingInvalidations
processPendingInvalidations(state) ==
  LET pending == {state.pendingInvalidations[i] :
                    i \in 1..Len(state.pendingInvalidations)}
      removed == [RemoveAll(state, pending \cap DOMAIN state.entries)
                    EXCEPT !.pendingInvalidations = <<>>]
  IN removed

\* cleanupExpiredEntries
cleanupExpiredEntries(state, time) ==
  RemoveAll(state, {k \in DOMAIN state.entries :
                      time > state.entries[k].expiryTime})

\* The comparator of optimizeCache says a goes before b: b is CRITICAL and a
\* is not, or neither is and a's score accessCount / (now - lastAccessed) is
\* the lower one (an age of 0 gives Infinity; Infinity - Infinity is NaN,
\* which sorts as equal).
SortsBefore(a, b, time) ==
  LET aAge == time - a.lastAccessed
      bAge == time - b.lastAccessed
  IN /\ a.priority # CRITICAL
     /\ \/ b.priority = CRITICAL
        \/ /\ aAge > 0
           /\ \/ bAge = 0
              \/ a.accessCount * bAge < b.accessCount * aAge

\* The orders Array.prototype.sort can leave the entries in: entries the
\* comparator does not separate keep the order of Object.values, which the
\* model does not track.
EvictionOrders(state, time) ==
  LET keys == DOMAIN state.entries
      n == Cardinality(keys)
  IN {p \in [1..n -> keys] :
        /\ \A i, j \in 1..n : i # j => p[i] # p[j]
        /\ \A i, j \in 1..n :
             i < j => ~SortsBefore(state.entries[p[j]], state.entries[p[i]], time)}

\* the for loop with CRITICAL entries evicted like the others
RECURSIVE EvictAny(_, _, _, _)
EvictAny(state, order, i, currentMemory) ==
  IF i > Len(order)
       \/ ~Above(currentMemory, state.config.maxMemoryUsage, 7)
    THEN [state EXCEPT !.metrics.memoryUsage = currentMemory]
  ELSE EvictAny([state EXCEPT !.metrics.evictionCount = @ + 1,
                              !.entries = DeleteEntry(@, order[i])],
                order, i + 1, currentMemory - state.entries[order[i]].size)

\* the for loop of optimizeCache, from position i of the sorted entries, and
\* state.metrics.memoryUsage = currentMemory after it
RECURSIVE Evict(_, _, _, _)
Evict(state, order, i, currentMemory) ==
  IF i > Len(order)
       \/ ~Above(currentMemory, state.config.maxMemoryUsage, 7)
    THEN [state EXCEPT !.metrics.memoryUsage = currentMemory]
  ELSE IF state.entries[order[i]].priority = CRITICAL
    THEN Evict(state, order, i + 1, currentMemory)
  ELSE Evict([state EXCEPT !.metrics.evictionCount = @ + 1,
                           !.entries = DeleteEntry(@, order[i])],
             order, i + 1, currentMemory - state.entries[order[i]].size)

\* optimizeCache, the sort having left the entries in the given order
optimizeCache(state, order, time) ==
  IF state.metrics.memoryUsage <= state.config.maxMemoryUsage
    THEN state
    ELSE [Evict(state, order, 1, state.metrics.memoryUsage)
            EXCEPT !.metrics.lastOptimization = time]

\* updateCacheConfig: { ...state.config, ...action.payload }
updateCacheConfig(state, partial) ==
  [state EXCEPT !.config =
     [f \in DOMAIN @ |-> IF f \in DOMAIN partial THEN partial[f] ELSE @[f]]]

\* clearCache: evictionCount grows by the number of keys of the entries
\* object just emptied
clearCache(state) ==
  LET emptied == <<>>
  IN [state EXCEPT !.entries = emptied,
                   !.metrics.memoryUsage = 0,
                   !.metrics.evictionCount = @ + Cardinality(DOMAIN emptied),
                   !.pendingInvalidations = <<>>]

\* get(): the integrity check fails on the entry
IntegrityFails(state, entry) ==
  /\ state.config.integrityCheckEnabled
  /\ entry.checksum # NoChecksum
  /\ generateChecksum(entry.data) # entry.checksum

\* PharmaceuticalCacheService.get: the state it leaves, the value returned
\* and whether it logged the integrity warning
get(state, key, time) ==
  LET accessed == accessCacheEntry(state, key, time)
  IN IF Present(accessed, key)
       THEN IF IntegrityFails(accessed, accessed.entries[key])
              THEN [state |-> invalidateCacheEntry(accessed, key),
                    value |-> NoData, warns |-> TRUE]
              ELSE [state |-> accessed, value |-> accessed.entries[key].data,
                    warns |-> FALSE]
       ELSE [state |-> accessed, value |-> NoData, warns |-> FALSE]

\* PharmaceuticalCacheService.performMaintenance up to the eviction pass
Swept(state, time) ==
  processPendingInvalidations(cleanupExpiredEntries(state, time))

\* PharmaceuticalCacheService.performMaintenance
performMaintenance(state, time, order) ==
  LET swept == Swept(state, time)
  IN IF Above(swept.metrics.memoryUsage, swept.config.maxMemoryUsage, 8)
       THEN optimizeCache(swept, order, time)
       ELSE swept

\* getStats with the misses in the place of the hits
getStatsOfMisses(state) ==
  LET metrics == state.metrics
  IN [ hitRate |->
         IF metrics.totalRequests > 0
           THEN (2 * metrics.missCount * 10000 + metrics.totalRequests)
                  \div (2 * metrics.totalRequests)
           ELSE 0,
       entryCount |-> Cardinality(DOMAIN state.entries) ]

\* PharmaceuticalCacheService.getStats: hitRate in hundredths of a percent
\* (Math.round(hitRate * 100) / 100 keeps two decimals) and entryCount
getStats(state) ==
  LET metrics == state.metrics
  IN [ hitRate |->
         IF metrics.totalRequests > 0
           THEN (2 * metrics.hitCount * 10000 + metrics.totalRequests)
                  \div (2 * metrics.totalRequests)
           ELSE 0,
       entryCount |-> Cardinality(DOMAIN state.entries) ]

\* stats before any call of getStats()
NoStats == [hitRate |-> -1, entryCount |-> -1]

CacheInit ==
  /\ cache = cacheInitialState
  /\ returned = [key |-> NULL, value |-> NoData]
  /\ stats = NoStats
  /\ warned = [message |-> "none", key |-> NULL]

\* control before any call of subscribe() or unsubscribe()
NoMessage == [type |-> "none", channels |-> <<>>, sent |-> FALSE]

SubscriptionsIdle ==
  /\ subscriptions = <<>>
  /\ control = NoMessage
  /\ events = <<>>
  /\ arrived = <<>>

(***************************************************************************)
(* Specifications                                                          *)
(***************************************************************************)
\* initialize(): navigator.onLine decides between a first probe and OFFLINE.
QueueInit(limit) ==
  /\ offlineQueue = initialState
  /\ passes = [s \in Slots |-> IdlePass]
  /\ startupProbe \in BOOLEAN
  /\ now = 0
  /\ nextId = 1
  /\ sentOk = [id \in 1..limit |-> 0]
  /\ sentFail = [id \in 1..limit |-> 0]
  /\ cleared = {}

\* the channel before initialize(): nothing connected
ChannelIdle ==
  /\ webSocket = [status |-> "disconnected", reconnectAttempts |-> 0, error |-> NULL]
  /\ service = [ws |-> 0, reconnectTimer |-> FALSE, heartbeatTimer |-> FALSE]
  /\ sockets = [k \in 1..MaxSockets |-> "NONE"]
  /\ intervals = 0
  /\ isAuthenticated = FALSE
  /\ explicitlyDisconnected = FALSE
  /\ statusTrail = <<>>

PriorityIdle ==
  /\ prioIn = [type |-> "create_customer", ctx |-> "absent"]
  /\ prioOut = NoPriority

Init ==
  /\ QueueInit(MaxOps)
  /\ PriorityIdle
  /\ ChannelIdle
  /\ SubscriptionsIdle
  /\ CacheInit

\* The queue under every interleaving of enqueue, the timer, the browser's
\* online/offline events, manual syncs and the answers of the network.
Next ==
  \/ Enqueue(MaxOps)
  \/ TimerFire
  \/ ForceSync
  \/ OnlineEvent
  \/ OfflineEvent
  \/ StartupProbeResponse
  \/ \E s \in Slots : ProbeResponse(s, ProbeOutcomes)
  \/ \E s \in Slots : ItemResponse(s, Responses, MaxSends)
  \/ ToggleAutoSync
  \/ ResetRetryCount

Spec == Init /\ [][Next]_vars

\* The queue with its conflict list handled by an external resolver.
NextConflict ==
  \/ Enqueue(MaxOps)
  \/ ForceSync
  \/ OnlineEvent
  \/ \E s \in Slots : ProbeResponse(s, ProbeOutcomes)
  \/ \E s \in Slots : ItemResponse(s, Responses, MaxSends)
  \/ SetConflictStrategy
  \/ ResolveConflict

SpecConflict == Init /\ [][NextConflict]_vars

\* One drain pass at a time over a long queue, the probe and every request
\* succeeding; the clock may advance between enqueues.
AllIdle == \A s \in Slots : passes[s].pc = "idle"

DrainEnqueue == AllIdle /\ Enqueue(MaxDrainOps)

DrainTick == AllIdle /\ Tick

DrainSync == AllIdle /\ ForceSync

DrainProbeOk == \E s \in Slots : ProbeResponse(s, {"ok"})

DrainItemOk ==
  \E s \in Slots :
    ItemResponse(s, {r \in Responses : r.kind = "ok"}, MaxDrainOps)

InitDrain ==
  /\ QueueInit(MaxDrainOps)
  /\ startupProbe = FALSE
  /\ PriorityIdle
  /\ ChannelIdle
  /\ SubscriptionsIdle
  /\ CacheInit

NextDrain ==
  \/ DrainEnqueue
  \/ DrainTick
  \/ DrainSync
  \/ DrainProbeOk
  \/ DrainItemOk

SpecDrain == InitDrain /\ [][NextDrain]_vars

\* calculatePriority over every operation type and dgdaContext.
InitPriority ==
  /\ QueueInit(MaxOps)
  /\ startupProbe = FALSE
  /\ prioIn \in [type : OfflineOperationType, ctx : DgdaContexts]
  /\ prioOut = NoPriority
  /\ ChannelIdle
  /\ SubscriptionsIdle
  /\ CacheInit

NextPriority == CalculatePriority

SpecPriority == InitPriority /\ [][NextPriority]_vars

(***************************************************************************)
(* Realtime channel: webSocketSlice                                        *)
(***************************************************************************)
\* WebSocketStatus
DISCONNECTED == "disconnected"
CONNECTING == "connecting"
CONNECTED == "connected"
RECONNECTING == "reconnecting"
WS_ERROR == "error"

WebSocketStatus == {DISCONNECTED, CONNECTING, CONNECTED, RECONNECTING, WS_ERROR}

\* initialState.maxReconnectAttempts
maxReconnectAttempts == 5

SockIds == 1..MaxSockets

\* CloseEvent.code of a close the server or the network causes while the
\* transport is open, and of the close that answers the client's own close()
\* (which sends no status code: 1005 unless the server replies with one).
NORMAL_CLOSURE == 1000
ServerCloseCodes == {1000, 1001}
ClientCloseCodes == {1000, 1005}
ABNORMAL_CLOSURE == 1006

wsInitialState ==
  [ status |-> DISCONNECTED,
    reconnectAttempts |-> 0,
    error |-> NULL ]

connectionStarted(slice) ==
  [slice EXCEPT !.status = CONNECTING, !.error = NULL]

connectionEstablished(slice) ==
  [slice EXCEPT !.status = CONNECTED, !.reconnectAttempts = 0, !.error = NULL]

connectionLost(slice, message) ==
  [slice EXCEPT !.status = DISCONNECTED, !.error = message]

reconnecting(slice) ==
  [slice EXCEPT !.status = RECONNECTING, !.reconnectAttempts = @ + 1]

connectionError(slice, message) ==
  [slice EXCEPT !.status = WS_ERROR, !.error = message]

(***************************************************************************)
(* PharmaceuticalWebSocketService.  A channel c is the slice, the service's *)
(* private fields (ws: 0 for null, else a transport), the transports the   *)
(* browser holds with the service's handlers attached, and the number of   *)
(* running setInterval heartbeats.                                         *)
(***************************************************************************)
Channel ==
  [ slice |-> webSocket,
    ws |-> service.ws,
    reconnectTimer |-> service.reconnectTimer,
    heartbeatTimer |-> service.heartbeatTimer,
    sockets |-> sockets,
    intervals |-> intervals,
    trail |-> <<>> ]

\* the store's subscribers see the slice after every dispatch: a dispatch
\* that changes the status adds the new status to the handler's trail
Trail(c, slice) ==
  IF slice.status # c.slice.status THEN Append(c.trail, slice.status)
  ELSE c.trail

\* this.ws?.readyState === WebSocket.OPEN
WsOpen(c) == c.ws # 0 /\ c.sockets[c.ws] = "OPEN"

\* transports the browser is done with
FreeSocks(c) == {k \in SockIds : c.sockets[k] \in {"NONE", "CLOSED"}}

\* connect(token)
connect(c) ==
  IF WsOpen(c) THEN c
  ELSE LET k == CHOOSE f \in FreeSocks(c) : \A g \in FreeSocks(c) : f <= g
       IN [c EXCEPT !.slice = connectionStarted(@),
                    !.trail = Trail(c, connectionStarted(c.slice)),
                    !.sockets[k] = "CONNECTING",
                    !.ws = k]

\* The store.subscribe listener calls connect() after a dispatch that leaves
\* the status 'disconnected' while authenticated.
ListenerConnects(slice, auth) == auth /\ slice.status = DISCONNECTED

\* store.dispatch of a webSocket action: the reducer's result, then the
\* store.subscribe listener that connects when authenticated and the status
\* is 'disconnected'.
dispatch(c, slice, auth) ==
  LET c1 == [c EXCEPT !.slice = slice, !.trail = Trail(c, slice)]
  IN IF ListenerConnects(slice, auth) THEN connect(c1) ELSE c1

startHeartbeat(c) ==
  [c EXCEPT !.heartbeatTimer = TRUE, !.intervals = @ + 1]

stopHeartbeat(c) ==
  IF c.heartbeatTimer
    THEN [c EXCEPT !.heartbeatTimer = FALSE, !.intervals = @ - 1]
    ELSE c

handleOpen(c, auth) ==
  startHeartbeat(dispatch(c, connectionEstablished(c.slice), auth))

scheduleReconnect(c, auth) ==
  IF c.reconnectTimer THEN c
  ELSE [dispatch(c, reconnecting(c.slice), auth) EXCEPT !.reconnectTimer = TRUE]

handleClose(c, code, auth) ==
  LET lost == dispatch(c, connectionLost(c.slice, "Connection closed"), auth)
      stopped == stopHeartbeat(lost)
  IN IF code # NORMAL_CLOSURE THEN scheduleReconnect(stopped, auth) ELSE stopped

handleError(c, auth) ==
  dispatch(c, connectionError(c.slice, "WebSocket connection error"), auth)

\* WebSocket.close(): an open transport starts the closing handshake, a
\* connecting one is aborted, a closing or closed one is left alone.
CloseSocket(state) ==
  CASE state = "OPEN" -> "CLOSING"
    [] state = "CONNECTING" -> "ABORTING"
    [] OTHER -> state

disconnect(c) ==
  LET noReconnect == [c EXCEPT !.reconnectTimer = FALSE]
      noHeartbeat == stopHeartbeat(noReconnect)
  IN IF noHeartbeat.ws # 0
       THEN [noHeartbeat EXCEPT !.sockets[c.ws] = CloseSocket(@), !.ws = 0]
       ELSE noHeartbeat

\* explicitlyDisconnected (history): disconnect() was called and connect() has
\* not been called since, by the application or by the listener.
ConnectCalled(called) ==
  explicitlyDisconnected' = (explicitlyDisconnected /\ ~called)

\* The channel c becomes the state.
Becomes(c) ==
  /\ webSocket' = c.slice
  /\ service' = [ws |-> c.ws, reconnectTimer |-> c.reconnectTimer,
                 heartbeatTimer |-> c.heartbeatTimer]
  /\ sockets' = c.sockets
  /\ intervals' = c.intervals
  /\ statusTrail' = c.trail

(***************************************************************************)
(* Actions of the channel                                                  *)
(***************************************************************************)
\* the application calls connect(token)
Connect ==
  /\ FreeSocks(Channel) # {}
  /\ Becomes(connect(Channel))
  /\ explicitlyDisconnected' = FALSE
  /\ UNCHANGED <<isAuthenticated, qvars, pvars, hvars, subvars, cvars>>

\* the application calls disconnect()
Disconnect ==
  /\ Becomes(disconnect(Channel))
  /\ explicitlyDisconnected' = TRUE
  /\ UNCHANGED <<isAuthenticated, qvars, pvars, hvars, subvars, cvars>>

\* the transport opens
SockOpen(k) ==
  /\ sockets[k] = "CONNECTING"
  /\ intervals < MaxIntervals
  /\ Becomes(handleOpen([Channel EXCEPT !.sockets[k] = "OPEN"], isAuthenticated))
  /\ UNCHANGED <<isAuthenticated, explicitlyDisconnected, qvars, pvars, hvars, subvars, cvars>>

\* the server closes an open transport: one close event
SockServerClose(k, code) ==
  /\ sockets[k] = "OPEN"
  /\ webSocket.reconnectAttempts < MaxReconnects
  /\ Becomes(handleClose([Channel EXCEPT !.sockets[k] = "CLOSED"], code,
                         isAuthenticated))
  /\ ConnectCalled(isAuthenticated)
  /\ UNCHANGED <<isAuthenticated, qvars, pvars, hvars, subvars, cvars>>

\* the connection fails (while connecting or open), or the transport that
\* close() aborted is gone: an error event, then a close event with 1006
SockFail(k) ==
  /\ sockets[k] \in {"CONNECTING", "OPEN", "ABORTING"}
  /\ webSocket.reconnectAttempts < MaxReconnects
  /\ Becomes(handleClose(
               handleError([Channel EXCEPT !.sockets[k] = "CLOSED"], isAuthenticated),
               ABNORMAL_CLOSURE, isAuthenticated))
  /\ ConnectCalled(isAuthenticated)
  /\ UNCHANGED <<isAuthenticated, qvars, pvars, hvars, subvars, cvars>>

\* the closing handshake that close() started completes
SockClosed(k, code) ==
  /\ sockets[k] = "CLOSING"
  /\ webSocket.reconnectAttempts < MaxReconnects
  /\ Becomes(handleClose([Channel EXCEPT !.sockets[k] = "CLOSED"], code,
                         isAuthenticated))
  /\ ConnectCalled(isAuthenticated)
  /\ UNCHANGED <<isAuthenticated, qvars, pvars, hvars, subvars, cvars>>

\* the setTimeout callback of scheduleReconnect; token is whether
\* localStorage holds 'pharma_auth_token'
ReconnectTimerFire(token) ==
  /\ service.reconnectTimer
  /\ FreeSocks(Channel) # {}
  /\ LET fired == [Channel EXCEPT !.reconnectTimer = FALSE]
     IN Becomes(IF token THEN connect(fired) ELSE fired)
  /\ UNCHANGED <<isAuthenticated, explicitlyDisconnected, qvars, pvars, hvars, subvars, cvars>>

\* a dispatch that makes state.auth authenticated, and the listener after it
Login ==
  /\ ~isAuthenticated
  /\ FreeSocks(Channel) # {}
  /\ isAuthenticated' = TRUE
  /\ Becomes(dispatch(Channel, webSocket, TRUE))
  /\ ConnectCalled(ListenerConnects(webSocket, TRUE))
  /\ UNCHANGED <<qvars, pvars, hvars, subvars, cvars>>

Logout ==
  /\ isAuthenticated
  /\ isAuthenticated' = FALSE
  /\ UNCHANGED <<webSocket, service, sockets, intervals, explicitlyDisconnected,
                 statusTrail,
                 qvars, pvars, hvars, subvars, cvars>>

\* any other dispatch to the store, and the listener after it
StoreDispatch ==
  /\ FreeSocks(Channel) # {}
  /\ Becomes(dispatch(Channel, webSocket, isAuthenticated))
  /\ ConnectCalled(ListenerConnects(webSocket, isAuthenticated))
  /\ UNCHANGED <<isAuthenticated, qvars, pvars, hvars, subvars, cvars>>

NextChannel ==
  \/ Connect
  \/ Disconnect
  \/ \E k \in SockIds : SockOpen(k)
  \/ \E k \in SockIds, code \in ServerCloseCodes : SockServerClose(k, code)
  \/ \E k \in SockIds : SockFail(k)
  \/ \E k \in SockIds, code \in ClientCloseCodes : SockClosed(k, code)
  \/ \E token \in BOOLEAN : ReconnectTimerFire(token)
  \/ Login
  \/ Logout
  \/ StoreDispatch

InitChannel ==
  /\ QueueInit(MaxOps)
  /\ startupProbe = FALSE
  /\ PriorityIdle
  /\ ChannelIdle
  /\ SubscriptionsIdle
  /\ CacheInit

SpecChannel == InitChannel /\ [][NextChannel]_vars

(***************************************************************************)
(* Subscriptions of the realtime channel                                   *)
(***************************************************************************)
\* subscriptionAdded
subscriptionAdded(subs, channel) ==
  IF \E i \in 1..Len(subs) : subs[i] = channel THEN subs
  ELSE Append(subs, channel)

\* subscriptionRemoved
subscriptionRemoved(subs, channel) ==
  SelectSeq(subs, LAMBDA sub : sub # channel)

\* channels.forEach(channel => dispatch(subscriptionAdded(channel)))
RECURSIVE AddAll(_, _)
AddAll(subs, channels) ==
  IF channels = <<>> THEN subs
  ELSE AddAll(subscriptionAdded(subs, Head(channels)), Tail(channels))

\* channels.forEach(channel => dispatch(subscriptionRemoved(channel)))
RECURSIVE RemoveEach(_, _)
RemoveEach(subs, channels) ==
  IF channels = <<>> THEN subs
  ELSE RemoveEach(subscriptionRemoved(subs, Head(channels)), Tail(channels))

\* the arrays the callers pass to subscribe() and unsubscribe()
ChannelLists == {<<"dgda">>, <<"dgda", "territory">>, <<"territory", "territory">>}

\* subscribe(channels) and unsubscribe(channels): with the transport open,
\* send() hands the control message to it and every channel is dispatched;
\* the store listener runs after each dispatch (its connect() returns at
\* once, the transport being open).  Otherwise the call does nothing.
Control(type, channels, subs) ==
  /\ control' = [type |-> type, channels |-> channels,
                 sent |-> WsOpen(Channel)]
  /\ IF WsOpen(Channel)
       THEN /\ subscriptions' = subs
            /\ ConnectCalled(ListenerConnects(webSocket, isAuthenticated))
       ELSE UNCHANGED <<subscriptions, explicitlyDisconnected>>
  /\ UNCHANGED <<webSocket, service, sockets, intervals, isAuthenticated,
                 statusTrail,
                 qvars, pvars, hvars, cvars>>

Subscribe(channels) ==
  Control("subscribe", channels, AddAll(subscriptions, channels))

Unsubscribe(channels) ==
  Control("unsubscribe", channels, RemoveEach(subscriptions, channels))

NextSubscribe ==
  \/ Connect
  \/ Disconnect
  \/ \E k \in SockIds : SockOpen(k)
  \/ \E k \in SockIds, code \in ServerCloseCodes : SockServerClose(k, code)
  \/ \E k \in SockIds, code \in ClientCloseCodes : SockClosed(k, code)
  \/ \E channels \in ChannelLists : Subscribe(channels)
  \/ \E channels \in ChannelLists : Unsubscribe(channels)

SpecSubscribe == InitChannel /\ [][NextSubscribe]_vars

(***************************************************************************)
(* Calls on the cache                                                      *)
(***************************************************************************)
\* JSON texts of the cached values: {} and {"a":1}
EmptyObject == <<123, 125>>
SmallObject == <<123, 34, 97, 34, 58, 49, 125>>

CacheData == {EmptyObject, SmallObject}

\* milliseconds between two readings of the clock
TickMs == 30000

\* a configuration with a low ceiling and low entry sizes, as a payload of
\* updateCacheConfig
TightConfig ==
  [ maxMemoryUsage |-> 12,
    strategies |->
      [ persistent |-> [defaultTTL |-> 86400, maxSize |-> 8, priority |-> HIGH],
        dynamic |-> [defaultTTL |-> 1800, maxSize |-> 8, priority |-> MEDIUM],
        critical |-> [defaultTTL |-> 43200, maxSize |-> 10,
                      priority |-> CRITICAL],
        realtime |-> [defaultTTL |-> 60, maxSize |-> 4, priority |-> LOW],
        temporary |-> [defaultTTL |-> 300, maxSize |-> 4, priority |-> LOW] ] ]

\* the set() calls of the callers
SetInputs ==
  { [key |-> "A", data |-> EmptyObject, strategy |-> REALTIME, ttl |-> 0,
     tags |-> {}, dependencies |-> {}],
    [key |-> "A", data |-> SmallObject, strategy |-> REALTIME, ttl |-> 30,
     tags |-> {"t"}, dependencies |-> {}],
    [key |-> "B", data |-> SmallObject, strategy |-> DYNAMIC, ttl |-> 0,
     tags |-> {"t"}, dependencies |-> {"A"}],
    [key |-> "C", data |-> SmallObject, strategy |-> CRITICAL_STRATEGY,
     ttl |-> 0, tags |-> {}, dependencies |-> {"B"}] }

\* what the actions of the cache leave alone
CacheFrame ==
  UNCHANGED <<offlineQueue, passes, startupProbe, nextId, sentOk, sentFail,
              pvars, hvars, wvars, subvars>>

\* set(key, data, strategy, options)
CacheSet(inputs) ==
  \E call \in inputs :
    /\ cache.metrics.memoryUsage + calculateDataSize(call.data) <= MaxMemory
    /\ Len(cache.pendingInvalidations) < MaxPending
    /\ cache' = setCacheEntry(cache, call.key, call.data, call.strategy, call.ttl,
                              call.tags, call.dependencies, now)
    /\ warned' = IF ExceedsMaxSize(cache, call.data, call.strategy)
                   THEN [message |-> "exceeds max size", key |-> call.key]
                   ELSE warned
    /\ UNCHANGED <<now, returned, stats>>
    /\ CacheFrame

\* get(key), the gets so far being fewer than the limit
CacheRead(key, limit) ==
  /\ cache.metrics.totalRequests < limit
  /\ LET got == get(cache, key, now)
     IN /\ cache' = got.state
        /\ returned' = [key |-> key, value |-> got.value]
        /\ warned' = IF got.warns
                       THEN [message |-> "integrity check failed", key |-> key]
                       ELSE warned
  /\ UNCHANGED <<now, stats>>
  /\ CacheFrame

\* get(key)
CacheGet(key) == CacheRead(key, MaxGets)

\* dispatch(invalidateCacheEntry(key))
Invalidate(key) ==
  /\ cache.metrics.evictionCount < MaxEvictions
  /\ Len(cache.pendingInvalidations) < MaxPending
  /\ cache' = invalidateCacheEntry(cache, key)
  /\ UNCHANGED <<now, returned, stats, warned>>
  /\ CacheFrame

\* dispatch(invalidateByTags(tags))
InvalidateByTags(tags) ==
  /\ Len(cache.pendingInvalidations) < MaxPending
  /\ cache' = invalidateByTags(cache, tags)
  /\ UNCHANGED <<now, returned, stats, warned>>
  /\ CacheFrame

\* the cleanup interval fires
Maintenance ==
  /\ cache.metrics.evictionCount < MaxEvictions
  /\ \E order \in EvictionOrders(Swept(cache, now), now) :
       cache' = performMaintenance(cache, now, order)
  /\ UNCHANGED <<now, returned, stats, warned>>
  /\ CacheFrame

\* optimize()
Optimize ==
  /\ cache.metrics.evictionCount < MaxEvictions
  /\ \E order \in EvictionOrders(cache, now) :
       cache' = optimizeCache(cache, order, now)
  /\ UNCHANGED <<now, returned, stats, warned>>
  /\ CacheFrame

\* clear()
Clear ==
  /\ cache' = clearCache(cache)
  /\ UNCHANGED <<now, returned, stats, warned>>
  /\ CacheFrame

\* dispatch(updateCacheConfig(partial))
UpdateCacheConfig(partial) ==
  /\ cache' = updateCacheConfig(cache, partial)
  /\ UNCHANGED <<now, returned, stats, warned>>
  /\ CacheFrame

\* The caller changes, in place, the object it handed to set(): the entry
\* holds the object itself, and an object the store cannot freeze (a class
\* instance, a Map) stays mutable.
MutateData(key, data) ==
  /\ Present(cache, key)
  /\ cache.entries[key].data # data
  /\ cache' = [cache EXCEPT !.entries[key].data = data]
  /\ UNCHANGED <<now, returned, stats, warned>>
  /\ CacheFrame

\* getStats()
GetStats ==
  /\ stats' = getStats(cache)
  /\ UNCHANGED <<cache, now, returned, warned>>
  /\ CacheFrame

\* time passes
Elapse ==
  /\ now < MaxClock * TickMs
  /\ now' = now + TickMs
  /\ UNCHANGED <<cache, returned, stats, warned>>
  /\ CacheFrame

NextCache ==
  \/ CacheSet(SetInputs)
  \/ \E key \in KeySet : CacheGet(key)
  \/ \E key \in KeySet : Invalidate(key)
  \/ InvalidateByTags({"t"})
  \/ Maintenance
  \/ Optimize
  \/ Clear
  \/ UpdateCacheConfig(TightConfig)

InitCache ==
  /\ QueueInit(MaxOps)
  /\ startupProbe = FALSE
  /\ PriorityIdle
  /\ ChannelIdle
  /\ SubscriptionsIdle
  /\ CacheInit

SpecCache == InitCache /\ [][NextCache]_vars

\* the cache as time passes
NextExpiry ==
  \/ CacheSet(SetInputs)
  \/ \E key \in KeySet : CacheGet(key)
  \/ Maintenance
  \/ Elapse

SpecExpiry == InitCache /\ [][NextExpiry]_vars

\* the cache with callers that change cached objects in place
NextIntegrity ==
  \/ CacheSet(SetInputs)
  \/ \E key \in KeySet : CacheGet(key)
  \/ \E key \in KeySet, data \in CacheData : MutateData(key, data)

SpecIntegrity == InitCache /\ [][NextIntegrity]_vars

\* the cache with its statistics read
NextStats ==
  \/ CacheSet({call \in SetInputs : call.key # "C"})
  \/ \E key \in KeySet : CacheRead(key, MaxStatsGets)
  \/ GetStats

SpecStats == InitCache /\ [][NextStats]_vars

\* the queue drained while the cache holds the entry of the entity the
\* queued operations change
CustomerKey == "A"

NextSync ==
  \/ Enqueue(MaxOps)
  \/ ForceSync
  \/ \E s \in Slots : ProbeResponse(s, {"ok"})
  \/ \E s \in Slots : ItemResponse(s, Responses, MaxSends)
  \/ CacheSet({call \in SetInputs :
                 call.key = CustomerKey /\ call.data = SmallObject})
  \/ Maintenance

SpecSync == InitCache /\ [][NextSync]_vars

(***************************************************************************)
(* Properties                                                              *)
(***************************************************************************)
InQueue(id) == \E n \in DOMAIN offlineQueue.items : offlineQueue.items[n].id = id

InQueueNext(id) == \E n \in DOMAIN offlineQueue'.items : offlineQueue'.items[n].id = id

QueueItem(id) ==
  offlineQueue.items[CHOOSE n \in DOMAIN offlineQueue.items :
                       offlineQueue.items[n].id = id]

QueueItemNext(id) ==
  offlineQueue'.items[CHOOSE n \in DOMAIN offlineQueue'.items :
                        offlineQueue'.items[n].id = id]

Enqueued == 1..(nextId - 1)

Corrupted == Range(offlineQueue.corruptedItems)

InProgress == {s \in Slots : passes[s].pc # "idle"}

\* the position in its sorted list of the item a sending pass awaits
Pos(p) == p.i + p.k

\* C1: a drain call made while a pass is in progress returns without probing
\* or sending, so at no time are two drain passes in progress.
C1_NoOverlappingDrain == Cardinality(InProgress) <= 1

\* C2: in a pass whose probe and requests all succeed the operations are
\* attempted in the order of the pass's list, which is by priority, highest
\* first, and by createdAt, earliest first, among equal priorities; every
\* operation of the batches before the current one has been attempted.
C2_DrainOrder ==
  \A s \in Slots :
    passes[s].pc = "send" =>
      LET list == passes[s].list
          pos == Pos(passes[s])
      IN /\ pos \in 1..Len(list)
         /\ \A n \in 1..Len(list) : (sentOk[list[n].id] > 0) <=> (n < pos)
         /\ \A a, b \in 1..Len(list) :
              a < b =>
                \/ list[a].priority > list[b].priority
                \/ /\ list[a].priority = list[b].priority
                   /\ list[a].createdAt <= list[b].createdAt
         /\ passes[s].i = batchSize * ((pos - 1) \div batchSize)
         /\ \A n \in 1..passes[s].i : sentOk[list[n].id] > 0
         /\ {list[n].id : n \in 1..Len(list)} \subseteq Enqueued

C2_SecondBatchReached ==
  \E s \in Slots :
    /\ passes[s].pc = "send"
    /\ passes[s].i >= batchSize
    /\ \E a, b \in 1..Len(passes[s].list) :
         passes[s].list[a].priority # passes[s].list[b].priority
    /\ \E a, b \in 1..Len(passes[s].list) :
         /\ passes[s].list[a].priority = passes[s].list[b].priority
         /\ passes[s].list[a].createdAt # passes[s].list[b].createdAt

\* C3: an operation whose every request failed with a non-409 error is,
\* after k < maxAttempts attempts, in the live queue with attemptCount = k,
\* and after maxAttempts attempts absent from it and in the corrupted set.
NeverConflicted(id) ==
  \A n \in DOMAIN offlineQueue.conflicts : offlineQueue.conflicts[n].id # id

C3_RetryAccounting ==
  \A id \in Enqueued :
    (sentOk[id] = 0 /\ NeverConflicted(id)) =>
      /\ sentFail[id] < maxAttempts =>
           InQueue(id) /\ QueueItem(id).attemptCount = sentFail[id]
      /\ sentFail[id] = maxAttempts =>
           ~InQueue(id) /\ id \in Corrupted

\* C4: every operation that was enqueued is in the live queue, or was
\* answered 2xx, or has its id in the corrupted set; and a pass that has an
\* answer to an item goes on to its next item until its list is exhausted,
\* whatever the answer was.
C4_Accounted ==
  \A id \in Enqueued : InQueue(id) \/ sentOk[id] > 0 \/ id \in Corrupted

C4_PassGoesOn ==
  \A s \in Slots :
    (passes[s].pc = "send" /\ passes'[s] # passes[s]) =>
      IF Pos(passes[s]) < Len(passes[s].list)
        THEN /\ passes'[s].pc = "send"
             /\ passes'[s].list = passes[s].list
             /\ Pos(passes'[s]) = Pos(passes[s]) + 1
        ELSE passes'[s].pc = "idle"

C4_NeverSilentlyDropped == [](C4_Accounted) /\ [][C4_PassGoesOn]_vars

C4_ExhaustedAndContinued ==
  \E id \in Enqueued :
    /\ ~InQueue(id)
    /\ sentOk[id] = 0
    /\ sentFail[id] >= maxAttempts
    /\ id \in Corrupted

\* C5: enqueue gives CRITICAL to a flagged operation and to the three
\* regulatory-submission types, HIGH to the four customer-management types,
\* LOW to the two analytics/metrics types and MEDIUM to the rest.
SpecifiedPriority(type, ctx) ==
  IF \/ ComplianceRequired(ctx)
     \/ type \in {"create_dgda_submission", "update_submission_status",
                  "upload_document"}
    THEN CRITICAL
  ELSE IF type \in {"create_customer", "update_customer",
                    "update_customer_tier", "assign_territory"}
    THEN HIGH
  ELSE IF type \in {"sync_analytics_data", "update_performance_metrics"}
    THEN LOW
  ELSE MEDIUM

C5_PriorityByType ==
  prioOut # NoPriority => prioOut = SpecifiedPriority(prioIn.type, prioIn.ctx)

\* C6: enqueue always adds the operation, right before the first queued
\* operation of strictly lower priority or at the end; the live queue is
\* always in non-increasing priority order with equal priorities in the
\* order of enqueue.
C6_QueueOrdered ==
  \A a, b \in DOMAIN offlineQueue.items :
    a < b =>
      \/ offlineQueue.items[a].priority > offlineQueue.items[b].priority
      \/ /\ offlineQueue.items[a].priority = offlineQueue.items[b].priority
         /\ offlineQueue.items[a].id < offlineQueue.items[b].id

C6_InsertedInPlace ==
  nextId' = nextId + 1 =>
    /\ Len(offlineQueue'.items) = Len(offlineQueue.items) + 1
    /\ InQueueNext(nextId)
    /\ LET new == offlineQueue'.items
           at == CHOOSE n \in DOMAIN new : new[n].id = nextId
       IN /\ \A n \in 1..(at - 1) :
               new[n] = offlineQueue.items[n] /\ new[n].priority >= new[at].priority
          /\ \A n \in (at + 1)..Len(new) : new[n] = offlineQueue.items[n - 1]
          /\ at < Len(new) => new[at + 1].priority < new[at].priority
          /\ new[at].attemptCount = 0

C6_PriorityInsertion == [](C6_QueueOrdered) /\ [][C6_InsertedInPlace]_vars

C6_MixedQueue ==
  /\ Len(offlineQueue.items) >= 2
  /\ offlineQueue.items[1].id > offlineQueue.items[2].id
  /\ nextId > MaxOps

\* C7: on a 409 answer a conflict entry with the operation's id, its payload
\* and the server's state is appended; the attempt is counted as a failure
\* (attemptCount set to the count the pass holds plus one, error and
\* lastAttempt set, or the operation moved to the corrupted set when that
\* count reaches maxAttempts); no step but the external resolver's removes
\* or rewrites a conflict or rewrites a payload, whatever the strategy.
Conflict409 == {r \in Responses : r.status = 409}

C7_ConflictRecorded ==
  \A s \in Slots :
    (passes[s].pc = "send" /\ ItemResponse(s, Conflict409, MaxSends)) =>
      LET item == CurrentItem(passes[s])
          old == offlineQueue.conflicts
          new == offlineQueue'.conflicts
      IN /\ Len(new) = Len(old) + 1
         /\ \A n \in DOMAIN old : new[n] = old[n]
         /\ new[Len(new)].id = item.id
         /\ InQueue(item.id) => new[Len(new)].clientData = QueueItem(item.id).data
         /\ new[Len(new)].serverData \in ServerStates
         /\ IF item.attemptCount + 1 >= maxAttempts
              THEN ~InQueueNext(item.id) /\ item.id \in Range(offlineQueue'.corruptedItems)
              ELSE InQueue(item.id) =>
                     /\ InQueueNext(item.id)
                     /\ QueueItemNext(item.id).attemptCount = item.attemptCount + 1
                     /\ QueueItemNext(item.id).error = "HTTP 409"
                     /\ QueueItemNext(item.id).lastAttempt = now

C7_NeverSelfResolved ==
  \/ ResolveConflict
  \/ /\ \A n \in DOMAIN offlineQueue.conflicts :
          /\ n \in DOMAIN offlineQueue'.conflicts
          /\ offlineQueue'.conflicts[n] = offlineQueue.conflicts[n]
     /\ \A id \in Enqueued :
          (InQueue(id) /\ InQueueNext(id)) =>
             QueueItemNext(id).data = QueueItem(id).data

C8_CeilingBlocksDrain ==
  (offlineQueue.connectionRetryCount >= maxConnectionRetries
     /\ (TimerFire \/ ForceSync)) =>
    UNCHANGED <<offlineQueue, passes>>

C8_OnlineResumes ==
  OnlineEvent =>
    /\ offlineQueue'.connectionRetryCount = 0
    /\ IF Len(offlineQueue.items) = 0
         THEN offlineQueue'.syncStatus = ONLINE /\ passes' = passes
         ELSE /\ offlineQueue'.syncStatus = SYNCING
              /\ \E s \in Slots :
                   /\ passes[s].pc = "idle"
                   /\ passes'[s].pc = "probe"
                   /\ passes'[s].list = Snapshot(offlineQueue.items)

C8_RetryCeiling == [][C8_CeilingBlocksDrain]_vars /\ [][C8_OnlineResumes]_vars

C8_CeilingReached ==
  /\ offlineQueue.connectionRetryCount >= maxConnectionRetries
  /\ Len(offlineQueue.items) > 0
  /\ ~offlineQueue.syncInProgress
  /\ offlineQueue.isAutoSyncEnabled
  /\ AllIdle


(***************************************************************************)
(* Properties of the realtime channel                                      *)
(***************************************************************************)
\* a close event with a code other than 1000 reaches handleClose
UncleanClose ==
  \/ \E k \in SockIds, code \in ServerCloseCodes \ {NORMAL_CLOSURE} :
       SockServerClose(k, code)
  \/ \E k \in SockIds : SockFail(k)
  \/ \E k \in SockIds, code \in ClientCloseCodes \ {NORMAL_CLOSURE} :
       SockClosed(k, code)

\* C9: a close with a code other than 1000 received while CONNECTED leaves
\* the status RECONNECTING and no heartbeat timer; the reconnect timer firing
\* while RECONNECTING leaves the status CONNECTING; the transport opening
\* while CONNECTING leaves the status CONNECTED; reconnectAttempts grows by
\* exactly one on every entry to RECONNECTING, is 0 on every entry to
\* CONNECTED, and changes at no other step.
C9_UncleanCloseReconnects ==
  (UncleanClose /\ webSocket.status = CONNECTED) =>
    /\ webSocket'.status = RECONNECTING
    /\ ~service'.heartbeatTimer

C9_DelayThenConnecting ==
  ((\E token \in BOOLEAN : ReconnectTimerFire(token))
     /\ webSocket.status = RECONNECTING) =>
    webSocket'.status = CONNECTING

C9_OpenThenConnected ==
  ((\E k \in SockIds : SockOpen(k)) /\ webSocket.status = CONNECTING) =>
    webSocket'.status = CONNECTED

C9_AttemptsCounted ==
  /\ (webSocket.status # RECONNECTING /\ webSocket'.status = RECONNECTING) =>
       webSocket'.reconnectAttempts = webSocket.reconnectAttempts + 1
  /\ (webSocket.status # CONNECTED /\ webSocket'.status = CONNECTED) =>
       webSocket'.reconnectAttempts = 0

C9_ReconnectSequence ==
  /\ [][C9_UncleanCloseReconnects]_vars
  /\ [][C9_DelayThenConnecting]_vars
  /\ [][C9_OpenThenConnected]_vars
  /\ [][C9_AttemptsCounted]_vars

\* no transport of the service has an event still to deliver
Quiescent == \A k \in SockIds : sockets[k] \in {"NONE", "CLOSED"}

\* C10: after disconnect(), and until connect() is called again, no
\* reconnect timer and no heartbeat timer is pending, and once every
\* transport has delivered its close event the status is DISCONNECTED.
C10_DisconnectIsFinal ==
  explicitlyDisconnected =>
    /\ ~service.reconnectTimer
    /\ ~service.heartbeatTimer
    /\ Quiescent => webSocket.status = DISCONNECTED

(***************************************************************************)
(* Properties of the subscriptions                                         *)
(***************************************************************************)
\* the channels of a list, as a set
ChannelsOf(channels) == {channels[i] : i \in 1..Len(channels)}

\* C11: subscribe(channels) adds every channel to the subscription set and
\* unsubscribe(channels) removes it, in every transport state (also while
\* the transport is not open); the control message is sent only when the
\* transport is open; the set never holds a channel twice.  Stated on the
\* last call: after subscribe every channel of the call is subscribed, after
\* unsubscribe none is, and no channel occurs twice.
C11_SubscriptionsFollowCalls ==
  /\ control.type = "subscribe"
       => ChannelsOf(control.channels) \subseteq ChannelsOf(subscriptions)
  /\ control.type = "unsubscribe"
       => ChannelsOf(control.channels) \cap ChannelsOf(subscriptions) = {}
  /\ \A i, j \in 1..Len(subscriptions) :
       subscriptions[i] = subscriptions[j] => i = j

\* the parts of C11 that hold: no channel twice, and a message is handed to
\* the transport only by a call made while the transport is open
C11_NoChannelTwice ==
  \A i, j \in 1..Len(subscriptions) :
    subscriptions[i] = subscriptions[j] => i = j

C11_SentOnlyWhenOpen ==
  [][control' # control /\ control'.sent => WsOpen(Channel)]_vars

(***************************************************************************)
(* Properties of the cache                                                 *)
(***************************************************************************)
\* the TTL, in seconds, a call of set() asks for: its override, else the
\* default of its strategy
TTLOf(call) ==
  IF call.ttl # 0 THEN call.ttl
  ELSE cache.config.strategies[call.strategy].defaultTTL

\* set(call) at the present time, then get(call.key) at the given time
SetThenGet(call, time) ==
  get(setCacheEntry(cache, call.key, call.data, call.strategy, call.ttl,
                    call.tags, call.dependencies, now),
      call.key, time)

\* the readings of the clock around the expiry of an entry set now
Before(call) == {now, now + TTLOf(call) * 1000 - 1, now + TTLOf(call) * 1000}
After(call) == {now + TTLOf(call) * 1000 + 1, now + TTLOf(call) * 1000 + TickMs}

\* in every state, a set() that is stored and the get() after it
C12_Immediate ==
  \A call \in SetInputs :
    ~ExceedsMaxSize(cache, call.data, call.strategy) =>
      LET stored == setCacheEntry(cache, call.key, call.data, call.strategy,
                                  call.ttl, call.tags, call.dependencies, now)
      IN /\ \A time \in Before(call) :
              LET got == SetThenGet(call, time)
              IN /\ got.value = call.data
                 /\ Present(got.state, call.key)
                 /\ got.state.metrics.hitCount = cache.metrics.hitCount + 1
                 /\ got.state.metrics.missCount = cache.metrics.missCount
         /\ \A time \in After(call) :
              LET got == SetThenGet(call, time)
              IN /\ got.value = NoData
                 /\ ~Present(got.state, call.key)
                 /\ got.state.metrics.memoryUsage
                      = stored.metrics.memoryUsage - calculateDataSize(call.data)
                 /\ got.state.metrics.missCount = cache.metrics.missCount + 1
                 /\ got.state.metrics.hitCount = cache.metrics.hitCount

\* every get() of a stored entry, whatever ran since its set()
C12_Later ==
  \A key \in KeySet :
    CacheGet(key) /\ Present(cache, key) =>
      LET entry == cache.entries[key]
      IN /\ now <= entry.expiryTime =>
              /\ returned' = [key |-> key, value |-> entry.data]
              /\ Present(cache', key)
              /\ cache'.metrics.hitCount = cache.metrics.hitCount + 1
              /\ cache'.metrics.missCount = cache.metrics.missCount
         /\ now > entry.expiryTime =>
              /\ returned' = [key |-> key, value |-> NoData]
              /\ ~Present(cache', key)
              /\ cache'.metrics.memoryUsage
                   = cache.metrics.memoryUsage - entry.size
              /\ cache'.metrics.missCount = cache.metrics.missCount + 1
              /\ cache'.metrics.hitCount = cache.metrics.hitCount

\* C12: set(key, data, strategy) followed by get(key) before the entry's
\* expiry returns data and counts a hit; a get(key) after the strategy's TTL
\* (or the TTL override of the call) has elapsed returns null, removes the
\* entry, subtracts its size from the memory usage and counts a miss.
C12_ExpiryOnRead == []C12_Immediate /\ [][C12_Later]_vars

\* an entry was read once before its expiry and once after it: the second
\* get() returned null and removed it
C12_ReadThenExpired ==
  /\ cache.metrics.hitCount = 1
  /\ cache.metrics.missCount = 1
  /\ cache.metrics.evictionCount = 0
  /\ DOMAIN cache.entries = {}
  /\ returned = [key |-> "A", value |-> NoData]
  /\ now > 0

\* the last warning is that of a set() of the key rejected for its size
Rejected(key) == warned = [message |-> "exceeds max size", key |-> key]

\* in every state, a set() whose data exceeds the max size of its strategy
C13_Rejected ==
  \A call \in SetInputs :
    ExceedsMaxSize(cache, call.data, call.strategy) =>
      LET after == setCacheEntry(cache, call.key, call.data, call.strategy,
                                 call.ttl, call.tags, call.dependencies, now)
      IN /\ after.entries = cache.entries
         /\ after.metrics = cache.metrics
         /\ after.pendingInvalidations = cache.pendingInvalidations
         /\ after = cache
         /\ ~Present(cache, call.key) =>
              get(after, call.key, now).value = NoData

\* a set() that logs the warning stores nothing
C13_WarnedStep ==
  CacheSet(SetInputs) /\ warned' # warned => cache' = cache

\* C13: a set whose data size exceeds the max entry size of its strategy is
\* a silent no-op: nothing is stored, and entries, memory usage, counters
\* and pending invalidations are unchanged; a get(key) after it on a cache
\* that held no entry for key returns null.
C13_OversizeIsNoOp == []C13_Rejected /\ [][C13_WarnedStep]_vars

\* set("A", ...) was rejected for its size on a cache with an entry for
\* another key, and get("A") returned null
C13_RejectedThenNull ==
  /\ Rejected("A")
  /\ ~Present(cache, "A")
  /\ Present(cache, "C")
  /\ returned = [key |-> "A", value |-> NoData]
  /\ cache.metrics.missCount = 1

\* get(key) finds an entry, not expired, whose data no longer has the
\* checksum stored with it
Mismatch(key) ==
  /\ CacheGet(key)
  /\ Present(cache, key)
  /\ now <= cache.entries[key].expiryTime
  /\ IntegrityFails(cache, cache.entries[key])

\* C14: with integrity checking enabled, a get(key) on a present, unexpired
\* entry whose recomputed checksum differs from the stored one returns null,
\* removes the entry and is counted as a miss: totalRequests and missCount
\* each grow by one and hitCount is unchanged.
C14_MismatchIsMiss ==
  [][\A key \in KeySet :
       Mismatch(key) =>
         /\ returned' = [key |-> key, value |-> NoData]
         /\ ~Present(cache', key)
         /\ cache'.metrics.totalRequests = cache.metrics.totalRequests + 1
         /\ cache'.metrics.missCount = cache.metrics.missCount + 1
         /\ cache'.metrics.hitCount = cache.metrics.hitCount]_vars

\* the part of C14 that holds: null is returned, the entry removed and the
\* request counted
C14_MismatchRemoves ==
  [][\A key \in KeySet :
       Mismatch(key) =>
         /\ returned' = [key |-> key, value |-> NoData]
         /\ ~Present(cache', key)
         /\ cache'.metrics.totalRequests = cache.metrics.totalRequests + 1]_vars

\* what the code counts instead: a hit and an eviction
C14_MismatchIsHit ==
  [][\A key \in KeySet :
       Mismatch(key) =>
         /\ cache'.metrics.hitCount = cache.metrics.hitCount + 1
         /\ cache'.metrics.missCount = cache.metrics.missCount
         /\ cache'.metrics.evictionCount = cache.metrics.evictionCount + 1]_vars

\* the keys of a list of pending invalidations
PendingOf(state) ==
  {state.pendingInvalidations[i] : i \in 1..Len(state.pendingInvalidations)}

\* the entries other than key that list key in their dependencies
DependentsOf(state, key) ==
  {k \in DOMAIN state.entries \ {key} : key \in state.entries[k].dependencies}

\* the keys a call appended to the pending invalidations
Scheduled(before, after) ==
  {after.pendingInvalidations[i] :
     i \in Len(before.pendingInvalidations) + 1
             .. Len(after.pendingInvalidations)}

\* in every state, invalidate(key) on a present key and the maintenance
\* pass after it
C15_Cascade ==
  \A key \in DOMAIN cache.entries :
    LET after == invalidateCacheEntry(cache, key)
        dependents == DependentsOf(cache, key)
    IN /\ DOMAIN after.entries = DOMAIN cache.entries \ {key}
       /\ SubSeq(after.pendingInvalidations, 1,
                 Len(cache.pendingInvalidations)) = cache.pendingInvalidations
       /\ Scheduled(cache, after) = dependents
       /\ \A k \in dependents :
            now <= cache.entries[k].expiryTime
              => get(after, k, now).value = cache.entries[k].data
       /\ \A order \in EvictionOrders(Swept(after, now), now) :
            LET pass == performMaintenance(after, now, order)
            IN /\ \A k \in dependents : ~Present(pass, k)
               /\ pass.pendingInvalidations = <<>>
               /\ \A c \in DOMAIN after.entries :
                    /\ c \notin PendingOf(after)
                    /\ now <= after.entries[c].expiryTime
                    /\ \/ after.entries[c].priority = CRITICAL
                       \/ Swept(after, now).metrics.memoryUsage
                            <= after.config.maxMemoryUsage
                    => /\ Present(pass, c)
                       /\ pass.entries[c] = cache.entries[c]

\* an invalidate(key) on a present key, and a maintenance pass, as steps
C15_Steps ==
  /\ \A key \in DOMAIN cache.entries :
       Invalidate(key) =>
         /\ DOMAIN cache'.entries = DOMAIN cache.entries \ {key}
         /\ Scheduled(cache, cache') = DependentsOf(cache, key)
  /\ Maintenance =>
       /\ cache'.pendingInvalidations = <<>>
       /\ DOMAIN cache'.entries \cap PendingOf(cache) = {}

\* C15: invalidate(A) on a present key A removes A at once and schedules
\* every other entry that lists A in its dependencies; those entries stay
\* readable until the next maintenance pass and are absent after it.  The
\* cascade is one level: an entry C that depends only on a scheduled entry
\* B is neither scheduled nor removed by the call or by that pass.
C15_OneLevelCascade == []C15_Cascade /\ [][C15_Steps]_vars

\* A was invalidated and B, which depends on A, removed by the maintenance
\* pass; C, which depends on B, is still stored and not scheduled
C15_DependentRemoved ==
  /\ DOMAIN cache.entries = {"C"}
  /\ cache.entries["C"].dependencies = {"B"}
  /\ cache.pendingInvalidations = <<>>
  /\ cache.metrics.evictionCount = 2
  /\ cache.metrics.lastOptimization = NoTime

\* B, which depends on A, is scheduled and still stored; C is not scheduled
C15_DependentScheduled ==
  /\ DOMAIN cache.entries = {"B", "C"}
  /\ cache.pendingInvalidations = <<"B">>
  /\ cache.metrics.evictionCount = 1

\* the entries of CRITICAL priority
CriticalKeys(state) ==
  {k \in DOMAIN state.entries : state.entries[k].priority = CRITICAL}

\* in every state, an eviction pass whatever order the sort leaves
C16_Pass ==
  \A order \in EvictionOrders(cache, now) :
    LET after == optimizeCache(cache, order, now)
        evicted == DOMAIN cache.entries \ DOMAIN after.entries
    IN /\ DOMAIN after.entries \subseteq DOMAIN cache.entries
       /\ \A k \in DOMAIN after.entries : after.entries[k] = cache.entries[k]
       /\ evicted \cap CriticalKeys(cache) = {}
       /\ cache.metrics.memoryUsage <= cache.config.maxMemoryUsage
            => after = cache
       /\ cache.metrics.memoryUsage > cache.config.maxMemoryUsage
            => /\ after.metrics.memoryUsage
                    = cache.metrics.memoryUsage - SizeOf(cache.entries, evicted)
               /\ \/ ~Above(after.metrics.memoryUsage,
                            cache.config.maxMemoryUsage, 7)
                  \/ DOMAIN after.entries = CriticalKeys(cache)
               /\ evicted # {}
                    => \E k \in evicted :
                         Above(after.metrics.memoryUsage + cache.entries[k].size,
                               cache.config.maxMemoryUsage, 7)

\* in every state, a maintenance pass removes a CRITICAL entry only if it is
\* scheduled for invalidation or expired
C16_MaintenanceKeepsCritical ==
  \A order \in EvictionOrders(Swept(cache, now), now) :
    \A k \in CriticalKeys(cache) :
      /\ k \notin PendingOf(cache)
      /\ now <= cache.entries[k].expiryTime
      => Present(performMaintenance(cache, now, order), k)

\* optimize() and the maintenance pass, as steps
C16_Steps ==
  /\ Optimize =>
       /\ CriticalKeys(cache) \subseteq DOMAIN cache'.entries
       /\ cache.metrics.memoryUsage <= cache.config.maxMemoryUsage
            => cache' = cache
       /\ cache.metrics.memoryUsage > cache.config.maxMemoryUsage
            => \/ ~Above(cache'.metrics.memoryUsage,
                         cache.config.maxMemoryUsage, 7)
               \/ DOMAIN cache'.entries = CriticalKeys(cache)
  /\ Maintenance =>
       CriticalKeys(cache) \ PendingOf(cache) \subseteq DOMAIN cache'.entries

\* C16: an eviction pass never removes an entry of CRITICAL priority.  When
\* memory usage exceeds the ceiling it removes non-CRITICAL entries until
\* usage is at most 70% of the ceiling or no non-CRITICAL entry is left;
\* when usage is at or below the ceiling it removes nothing.
C16_CriticalNeverEvicted ==
  []C16_Pass /\ []C16_MaintenanceKeepsCritical /\ [][C16_Steps]_vars

\* an eviction pass ran with usage above the ceiling: it evicted, brought
\* usage to 70% of the ceiling or less, and the CRITICAL entry is stored
C16_EvictedDownToTarget ==
  /\ cache.metrics.lastOptimization # NoTime
  /\ cache.metrics.evictionCount > 0
  /\ CriticalKeys(cache) = {"C"}
  /\ DOMAIN cache.entries = {"C"}
  /\ ~Above(cache.metrics.memoryUsage, cache.config.maxMemoryUsage, 7)

\* an eviction pass ran and left usage above 70% of the ceiling: only
\* CRITICAL entries are stored
C16_OnlyCriticalLeft ==
  /\ cache.metrics.lastOptimization # NoTime
  /\ Above(cache.metrics.memoryUsage, cache.config.maxMemoryUsage, 7)
  /\ DOMAIN cache.entries = {"C"}
  /\ cache.pendingInvalidations = <<>>

\* C19: invalidate(key) on a key that is not in the store is a no-op:
\* entries, memory usage, eviction count and pending invalidations are all
\* unchanged; hence invalidating the same key twice in a row has the same
\* effect as invalidating it once.
C19_InvalidateAbsentIsNoOp ==
  \A key \in KeySet :
    LET once == invalidateCacheEntry(cache, key)
        twice == invalidateCacheEntry(once, key)
    IN /\ ~Present(cache, key) =>
            /\ once.entries = cache.entries
            /\ once.metrics = cache.metrics
            /\ once.pendingInvalidations = cache.pendingInvalidations
            /\ once = cache
       /\ ~Present(once, key)
       /\ twice = once

\* A has been invalidated, which scheduled B: invalidating A again finds it
\* absent, with an eviction counted and an invalidation pending
C19_InvalidatedOnce ==
  /\ ~Present(cache, "A")
  /\ DOMAIN cache.entries = {"B"}
  /\ cache.metrics.evictionCount = 1
  /\ cache.metrics.memoryUsage > 0
  /\ cache.pendingInvalidations = <<"B">>

\* the sum of the recorded sizes of the stored entries
StoredSize(state) == SizeOf(state.entries, DOMAIN state.entries)

\* C20: after any sequence of set (including a set that overwrites an
\* existing key), get, invalidate, invalidateByTags, maintenance, eviction
\* and clear, the memoryUsage counter equals the sum of the recorded sizes
\* of the entries in the store, and is never negative.
C20_MemoryUsageIsSum ==
  /\ cache.metrics.memoryUsage = StoredSize(cache)
  /\ cache.metrics.memoryUsage >= 0

\* the part of C20 that holds: the counter is never below the sum of the
\* sizes, so never negative
C20_NeverBelowSum ==
  /\ cache.metrics.memoryUsage >= StoredSize(cache)
  /\ cache.metrics.memoryUsage >= 0

\* a set() of a key that is not stored adds exactly the size it records
C20_FreshSetAdds ==
  [][\A key \in KeySet :
       /\ CacheSet({call \in SetInputs : call.key = key})
       /\ ~Present(cache, key)
       /\ Present(cache', key)
       => cache'.metrics.memoryUsage - StoredSize(cache')
            = cache.metrics.memoryUsage - StoredSize(cache)]_vars

(***************************************************************************)
(* Properties of the queue and the cache together                          *)
(***************************************************************************)
\* the step removes the operation from the queue on a 2xx answer
RemovedOnSuccess(id) ==
  /\ InQueue(id)
  /\ ~InQueueNext(id)
  /\ sentOk'[id] = sentOk[id] + 1

\* C17: whenever an operation is removed from the queue because its request
\* succeeded during a drain, the cache entries affected by it are
\* invalidated (removed or scheduled for removal).  Stated for the entry
\* stored under CustomerKey: the step removes it or schedules it.
C17_SuccessInvalidates ==
  [][\A id \in Enqueued :
       RemovedOnSuccess(id) /\ Present(cache, CustomerKey) =>
         \/ ~Present(cache', CustomerKey)
         \/ CustomerKey \in PendingOf(cache')]_vars

\* what the code does: no step of a drain changes the cache
C17_DrainLeavesCache ==
  [][(\E s \in Slots : ItemResponse(s, Responses, MaxSends)) => cache' = cache]_vars

(***************************************************************************)
(* Properties of the statistics                                            *)
(***************************************************************************)
\* the hit rate, in hundredths of a percent, is hitCount / totalRequests to
\* the nearest hundredth of a percent, and 0 with no request
RateOf(state) ==
  LET rate == getStats(state).hitRate
      metrics == state.metrics
  IN IF metrics.totalRequests = 0 THEN rate = 0
     ELSE /\ 2 * (rate * metrics.totalRequests - metrics.hitCount * 10000)
               <= metrics.totalRequests
          /\ 2 * (metrics.hitCount * 10000 - rate * metrics.totalRequests)
               <= metrics.totalRequests

C18_Rate ==
  /\ getStats(cacheInitialState).hitRate = 0
  /\ RateOf(cache)
  /\ cache.metrics.hitCount = 1 /\ cache.metrics.missCount = 1
       => getStats(cache).hitRate = 5000
  /\ cache.metrics.hitCount + cache.metrics.missCount
       = cache.metrics.totalRequests

C18_Read ==
  GetStats => /\ stats' = getStats(cache)
              /\ RateOf(cache)
              /\ cache' = cache

\* C18: the reported hit rate is hitCount / totalRequests as a percentage,
\* and 0 when no get has been issued: a fresh cache reports 0, and one set,
\* one get that hits and one get of a different, absent key give 50.  After
\* any sequence of gets hitCount + missCount = totalRequests, and reading
\* the statistics changes no cache state.
C18_HitRate == []C18_Rate /\ [][C18_Read]_vars

\* one set, one get that hit and one get of an absent key: 50 was reported
C18_HalfHits ==
  /\ stats = [hitRate |-> 5000, entryCount |-> 1]
  /\ cache.metrics.hitCount = 1
  /\ cache.metrics.missCount = 1
  /\ returned.value = NoData
  /\ ~Present(cache, returned.key)

\* one hit in three gets: 33.33 was reported
C18_OneThird ==
  /\ stats.hitRate = 3333
  /\ cache.metrics.totalRequests = 3

(***************************************************************************)
(* Claims on the realtime channel's life cycle                             *)
(***************************************************************************)
\* the status changes a handler made, as pairs <<from, to>>
StatusChanges(from, trail) ==
  LET seen == <<from>> \o trail
  IN {<<seen[i], seen[i + 1]>> : i \in 1..Len(trail)}

\* the transitions of the connection status, other than those of disconnect()
StatusTransitions ==
  { <<DISCONNECTED, CONNECTING>>, <<CONNECTING, CONNECTED>>,
    <<CONNECTING, WS_ERROR>>, <<CONNECTED, DISCONNECTED>>,
    <<CONNECTED, RECONNECTING>>, <<RECONNECTING, CONNECTING>> }

\* C21: the connection status changes only along DISCONNECTED -> CONNECTING,
\* CONNECTING -> CONNECTED, CONNECTING -> ERROR, CONNECTED -> DISCONNECTED
\* (close with code 1000, no reconnect scheduled), CONNECTED -> RECONNECTING
\* (heartbeat stopped, one reconnect scheduled), RECONNECTING -> CONNECTING,
\* and from any status to DISCONNECTED when disconnect() is called, which
\* leaves the status DISCONNECTED.
C21_StatusTransitions ==
  [][ /\ \A change \in StatusChanges(webSocket.status, statusTrail') :
           \/ change \in StatusTransitions
           \/ Disconnect /\ change[2] = DISCONNECTED
      /\ Disconnect => webSocket'.status = DISCONNECTED
      /\ <<CONNECTED, DISCONNECTED>> \in StatusChanges(webSocket.status, statusTrail')
           => ~service'.reconnectTimer \/ service.reconnectTimer
      /\ <<CONNECTED, RECONNECTING>> \in StatusChanges(webSocket.status, statusTrail')
           => service'.reconnectTimer /\ ~service'.heartbeatTimer ]_vars

(***************************************************************************)
(* Claims on the retry accounting of the queue                             *)
(***************************************************************************)
\* The slice after each dispatch of one iteration of the loop of
\* processBatch, from the response on: the store's subscribers see every
\* one of them.
processItemDispatches(state, item, resp, time) ==
  LET sent == processQueueItem(state, item, resp)
      updated == updateQueueItem(sent, item.id, item.attemptCount + 1,
                                 ErrorMessage(resp), time)
      removed == removeFromQueue(updated, item.id)
  IN IF resp.kind = "ok" THEN <<sent>>
     ELSE IF item.attemptCount + 1 >= item.maxAttempts
       THEN <<sent, updated, removed, markAsCorrupted(removed, item.id)>>
     ELSE <<sent, updated>>

AttemptsBelowMax(state) ==
  \A n \in DOMAIN state.items :
    state.items[n].attemptCount < state.items[n].maxAttempts

\* C22: every operation in the live queue has attemptCount < maxAttempts,
\* in the states between handlers and in the states between the dispatches
\* of a drain pass (those the pass goes through when the answer it waits
\* for arrives).
C22_AttemptsBelowMax ==
  /\ AttemptsBelowMax(offlineQueue)
  /\ \A s \in Slots :
       passes[s].pc = "send" =>
         \A resp \in Responses :
           LET steps == processItemDispatches(offlineQueue, CurrentItem(passes[s]),
                                              resp, now)
           IN \A n \in DOMAIN steps : AttemptsBelowMax(steps[n])

\* between handlers the bound holds: the handler that stores attemptCount =
\* maxAttempts removes the operation before it returns
C22_BelowMaxBetweenHandlers == AttemptsBelowMax(offlineQueue)

\* the last dispatch of the iteration is what the handler leaves
C22_DispatchesEndInProcessItem ==
  \A s \in Slots :
    passes[s].pc = "send" =>
      \A resp \in Responses :
        LET steps == processItemDispatches(offlineQueue, CurrentItem(passes[s]),
                                           resp, now)
        IN steps[Len(steps)] = processItem(offlineQueue, CurrentItem(passes[s]), resp, now)

\* an answer of the probe that is not a success: a response that is not OK,
\* or a network error
FailedProbes == ProbeOutcomes \ {"ok"}

\* C23: every failed connectivity probe (network error or non-OK response)
\* adds one to connectionRetryCount and a successful one sets it to 0; a
\* probe that fails inside a drain pass leaves the status OFFLINE, the pass
\* ended with nothing sent, and the queue's operations unchanged.
C23_ProbeAccounting ==
  [][ /\ StartupProbeResponse =>
           offlineQueue'.connectionRetryCount =
             IF offlineQueue'.syncStatus = ONLINE THEN 0
             ELSE offlineQueue.connectionRetryCount + 1
      /\ \A s \in Slots :
           /\ ProbeResponse(s, {"ok"}) => offlineQueue'.connectionRetryCount = 0
           /\ ProbeResponse(s, FailedProbes) =>
                /\ offlineQueue'.connectionRetryCount =
                     offlineQueue.connectionRetryCount + 1
                /\ offlineQueue'.syncStatus = OFFLINE
                /\ offlineQueue'.items = offlineQueue.items
                /\ passes'[s] = IdlePass
                /\ sentOk' = sentOk /\ sentFail' = sentFail ]_vars

\* what the code does on a failed probe inside a pass: OFFLINE, the pass
\* ended, nothing sent and the queue unchanged; the counter grows only when
\* fetch threw
C23_FailedProbeEndsPass ==
  [][\A s \in Slots :
       /\ ProbeResponse(s, {"ok"}) => offlineQueue'.connectionRetryCount = 0
       /\ ProbeResponse(s, FailedProbes) =>
            /\ offlineQueue'.connectionRetryCount \in
                 { offlineQueue.connectionRetryCount,
                   offlineQueue.connectionRetryCount + 1 }
            /\ offlineQueue'.syncStatus = OFFLINE
            /\ offlineQueue'.items = offlineQueue.items
            /\ passes'[s] = IdlePass
            /\ sentOk' = sentOk /\ sentFail' = sentFail ]_vars

(***************************************************************************)
(* The queue drains: auto-sync on, the timer firing again and again, the   *)
(* probe succeeding and every request answered in the end.  The answers    *)
(* are the network's choice; the history counters stand still, so that the *)
(* passes may go on without bound.                                         *)
(***************************************************************************)
\* the answers of a server that reports no conflict
LiveResponses == {r \in Responses : r.status # 409}

\* processBatch resumes after `await this.processQueueItem(item)`
ItemAnswered(s) ==
  /\ passes[s].pc = "send"
  /\ \E resp \in LiveResponses :
       LET item == CurrentItem(passes[s])
           next == Advance(passes[s])
           done == processItem(offlineQueue, item, resp, now)
       IN /\ passes' = [passes EXCEPT ![s] = next]
          /\ offlineQueue' =
               IF next.pc = "idle" THEN setSyncStatus(done, ONLINE) ELSE done
  /\ UNCHANGED <<startupProbe, now, nextId, sentOk, sentFail, nonqvars>>

ProbeSucceeds(s) == ProbeResponse(s, {"ok"})

InitLive ==
  /\ QueueInit(MaxOps)
  /\ startupProbe = FALSE
  /\ PriorityIdle
  /\ ChannelIdle
  /\ SubscriptionsIdle
  /\ CacheInit

NextLive ==
  \/ Enqueue(MaxOps)
  \/ TimerFire
  \/ ForceSync
  \/ OnlineEvent
  \/ OfflineEvent
  \/ \E s \in Slots : ProbeSucceeds(s)
  \/ \E s \in Slots : ItemAnswered(s)

\* setInterval keeps firing the timer; every fetch is answered
SpecLive ==
  /\ InitLive
  /\ [][NextLive]_vars
  /\ WF_vars(TimerFire)
  /\ \A s \in Slots : WF_vars(ProbeSucceeds(s))
  /\ \A s \in Slots : WF_vars(ItemAnswered(s))

\* C24: with auto-sync on, the timer firing repeatedly, the probe always
\* succeeding and every request eventually answered, every operation in the
\* queue eventually leaves it, and every drain pass that starts eventually
\* ends with syncInProgress false and a status other than SYNCING.
C24_EventuallyDrained ==
  /\ \A id \in 1..MaxOps : InQueue(id) ~> ~InQueue(id)
  /\ \A s \in Slots :
       (passes[s].pc # "idle") ~>
         /\ passes[s].pc = "idle"
         /\ ~offlineQueue.syncInProgress
         /\ offlineQueue.syncStatus # SYNCING

\* every operation was enqueued and has left, one of them after
\* maxAttempts failures, and the passes have ended
C24_DrainedAfterFailures ==
  /\ nextId > MaxOps
  /\ offlineQueue.items = <<>>
  /\ Corrupted # {}
  /\ AllIdle
  /\ ~offlineQueue.syncInProgress
  /\ offlineQueue.syncStatus = ONLINE

(***************************************************************************)
(* The event log of the realtime channel                                   *)
(***************************************************************************)
PharmaceuticalEventType ==
  { "dgda_submission_status_change", "dgda_document_approved",
    "dgda_compliance_deadline", "customer_tier_updated",
    "customer_territory_changed", "customer_compliance_status",
    "campaign_status_change", "campaign_approval_update",
    "campaign_performance_alert", "territory_assignment_change",
    "territory_performance_update", "system_maintenance",
    "audit_trail_update" }

\* the case labels of the switch of handleMessage
HandledEventTypes ==
  { "dgda_submission_status_change", "dgda_document_approved",
    "dgda_compliance_deadline", "customer_tier_updated",
    "customer_territory_changed", "campaign_status_change",
    "territory_assignment_change", "audit_trail_update" }

\* eventReceived keeps this many events
maxEvents == 100

\* The frames a server may send: JSON with a declared type, JSON with
\* another type, or text that JSON.parse rejects.  seq tells frames apart.
FrameKinds ==
  [parses : {TRUE}, type : PharmaceuticalEventType \cup {"pong"}]
    \cup {[parses |-> FALSE, type |-> NULL]}

Frame(kind, seq) == [parses |-> kind.parses, type |-> kind.type, seq |-> seq]

\* eventReceived
eventReceived(log, message) ==
  LET added == <<message>> \o log
  IN IF Len(added) > maxEvents THEN SubSeq(added, 1, maxEvents) ELSE added

\* handleMessage dispatches eventReceived for the frame
Logs(frame) == frame.parses /\ frame.type \in HandledEventTypes

\* handleMessage dispatching for every declared type
LogsDeclared(frame) == frame.parses /\ frame.type \in PharmaceuticalEventType

\* the lengths of the log the channel starts with: empty, and one short of
\* its limit
InitialLogs == {0, maxEvents - 1}

\* onmessage of transport k: handleMessage, and the store listener after the
\* dispatch of eventReceived
Message(k, kind) ==
  /\ sockets[k] = "OPEN"
  /\ FreeSocks(Channel) # {}
  /\ \E n \in InitialLogs : n <= Len(arrived) /\ Len(arrived) < n + MaxFrames
  /\ LET frame == Frame(kind, Len(arrived) + 1)
     IN /\ arrived' = <<frame>> \o arrived
        /\ IF Logs(frame)
             THEN /\ events' = eventReceived(events, frame)
                  /\ Becomes(dispatch(Channel, webSocket, isAuthenticated))
                  /\ ConnectCalled(ListenerConnects(webSocket, isAuthenticated))
             ELSE UNCHANGED <<events, webSocket, service, sockets, intervals,
                              explicitlyDisconnected, statusTrail>>
  /\ UNCHANGED <<isAuthenticated, cleared, qvars, pvars, subvars, cvars>>

\* a log of n events of one type, as n frames leave it
Logged(n) ==
  [i \in 1..n |-> Frame([parses |-> TRUE, type |-> "audit_trail_update"], n + 1 - i)]

\* The channel idle with an empty log, or connected and subscribed with the
\* log one short of its limit.
InitEvents ==
  /\ QueueInit(MaxOps)
  /\ startupProbe = FALSE
  /\ PriorityIdle
  /\ CacheInit
  /\ control = NoMessage
  /\ isAuthenticated = FALSE
  /\ explicitlyDisconnected = FALSE
  /\ statusTrail = <<>>
  /\ \/ /\ webSocket = wsInitialState
        /\ service = [ws |-> 0, reconnectTimer |-> FALSE, heartbeatTimer |-> FALSE]
        /\ sockets = [k \in 1..MaxSockets |-> "NONE"]
        /\ intervals = 0
        /\ subscriptions = <<>>
        /\ events = Logged(0)
        /\ arrived = Logged(0)
     \/ /\ webSocket = connectionEstablished(connectionStarted(wsInitialState))
        /\ service = [ws |-> 1, reconnectTimer |-> FALSE, heartbeatTimer |-> TRUE]
        /\ sockets = [k \in 1..MaxSockets |-> IF k = 1 THEN "OPEN" ELSE "NONE"]
        /\ intervals = 1
        /\ subscriptions = <<"dgda">>
        /\ events = Logged(maxEvents - 1)
        /\ arrived = Logged(maxEvents - 1)

NextEvents ==
  \/ Connect
  \/ \E k \in SockIds : SockOpen(k)
  \/ \E k \in SockIds, kind \in FrameKinds : Message(k, kind)
  \/ \E k \in SockIds : SockServerClose(k, NORMAL_CLOSURE)

SpecEvents == InitEvents /\ [][NextEvents]_vars

\* the first n elements of a sequence
Newest(log, n) == SubSeq(log, 1, Min(Len(log), n))

\* C25: the event log holds at most 100 events, newest first, and they are
\* exactly the most recent messages whose type is a member of
\* PharmaceuticalEventType; a message that does not parse or whose type is
\* not declared leaves the log, the connection status and the subscriptions
\* unchanged.
C25_EventLog ==
  /\ [](/\ Len(events) <= maxEvents
        /\ events = Newest(SelectSeq(arrived, LogsDeclared), maxEvents))
  /\ [][\A k \in SockIds, kind \in FrameKinds :
          (Message(k, kind) /\ ~LogsDeclared(Frame(kind, 0))) =>
            /\ events' = events
            /\ webSocket'.status = webSocket.status
            /\ subscriptions' = subscriptions]_vars

\* what the code keeps: the most recent messages of the eight types that
\* the switch of handleMessage lists
C25_LogOfHandledTypes ==
  /\ [](/\ Len(events) <= maxEvents
        /\ events = Newest(SelectSeq(arrived, Logs), maxEvents))
  /\ [][\A k \in SockIds, kind \in FrameKinds :
          (Message(k, kind) /\ ~Logs(Frame(kind, 0))) =>
            /\ events' = events
            /\ webSocket'.status = webSocket.status
            /\ subscriptions' = subscriptions]_vars

\* the log is full and its oldest event was dropped for a newer one
C25_OldestDropped ==
  /\ Len(events) = maxEvents
  /\ Len(SelectSeq(arrived, Logs)) > maxEvents
  /\ events[1].seq > maxEvents

\* C26: over every interleaving of drain passes and answers, the
\* attemptCount of an operation in the queue is the number of its sends that
\* failed, no operation is sent more than maxAttempts times, and an
\* operation that was answered 2xx is not sent again.
C26_AttemptsCountSends ==
  /\ [](\A id \in Enqueued :
          /\ InQueue(id) => QueueItem(id).attemptCount = sentFail[id]
          /\ sentOk[id] + sentFail[id] <= maxAttempts
          /\ sentOk[id] <= 1)
  /\ [][\A id \in Enqueued :
          sentOk[id] >= 1 => sentOk'[id] = sentOk[id] /\ sentFail'[id] = sentFail[id]]_vars

\* the transports that are connecting or open, the service's handlers
\* attached to each
LiveTransports == {k \in SockIds : sockets[k] \in {"CONNECTING", "OPEN"}}

\* C27: at any time there is at most one live transport with handlers
\* attached, at most one running heartbeat timer and at most one pending
\* reconnect timer, also when connect() is called while CONNECTING.
C27_SingleTransport ==
  /\ Cardinality(LiveTransports) <= 1
  /\ intervals <= 1
  /\ service.reconnectTimer \in BOOLEAN

\* scheduleReconnect returns when a timer is pending, so there is never a
\* second reconnect timer; the service holds the newest transport only
C27_NewestTransportHeld ==
  /\ service.reconnectTimer \in BOOLEAN
  /\ service.ws # 0 => sockets[service.ws] # "NONE"
  /\ service.heartbeatTimer => intervals >= 1

\* C28: reconnectAttempts never exceeds maxReconnectAttempts (5); once it
\* has reached 5 no further reconnect is scheduled.
C28_ReconnectsBounded ==
  webSocket.reconnectAttempts <= maxReconnectAttempts

\* C29: the conflict list holds at most one entry per operation id, and
\* every entry refers to an operation that is in the live queue or in the
\* corrupted set.
C29_ConflictsUnique ==
  /\ \A m, n \in DOMAIN offlineQueue.conflicts :
       offlineQueue.conflicts[m].id = offlineQueue.conflicts[n].id => m = n
  /\ \A n \in DOMAIN offlineQueue.conflicts :
       \/ InQueue(offlineQueue.conflicts[n].id)
       \/ offlineQueue.conflicts[n].id \in Corrupted

\* every conflict entry is of an operation that was enqueued and was
\* answered 409 at least as often as it has entries
C29_ConflictsOfFailedSends ==
  \A id \in Enqueued :
    Cardinality({n \in DOMAIN offlineQueue.conflicts :
                   offlineQueue.conflicts[n].id = id}) <= sentFail[id]

(***************************************************************************)
(* The emergency reset of the queue                                        *)
(***************************************************************************)
\* a file is put on the list of pending uploads
AddPendingUpload ==
  /\ offlineQueue' = addPendingUpload(offlineQueue, "file")
  /\ UNCHANGED <<passes, startupProbe, now, nextId, sentOk, sentFail, nonqvars>>

\* clearAllOperations
ClearAllOperations ==
  /\ offlineQueue' = clearQueue(offlineQueue)
  /\ cleared' = cleared \cup {offlineQueue.items[n].id : n \in DOMAIN offlineQueue.items}
  /\ UNCHANGED <<passes, startupProbe, now, nextId, sentOk, sentFail,
                 events, arrived, pvars, wvars, subvars, cvars>>

\* The queue with its emergency reset, called at any time.
NextClear ==
  \/ Enqueue(MaxOps)
  \/ AddPendingUpload
  \/ ForceSync
  \/ \E s \in Slots : ProbeSucceeds(s)
  \/ \E s \in Slots : ItemResponse(s, Responses, MaxSends)
  \/ ClearAllOperations

SpecClear == InitLive /\ [][NextClear]_vars

\* clearQueue empties the four lists and leaves the rest of the slice
ClearEmpties ==
  ClearAllOperations =>
    /\ offlineQueue'.items = <<>>
    /\ offlineQueue'.pendingUploads = <<>>
    /\ offlineQueue'.conflicts = <<>>
    /\ offlineQueue'.corruptedItems = <<>>
    /\ offlineQueue'.syncStatus = offlineQueue.syncStatus
    /\ offlineQueue'.syncInProgress = offlineQueue.syncInProgress
    /\ offlineQueue'.connectionRetryCount = offlineQueue.connectionRetryCount
    /\ offlineQueue'.isAutoSyncEnabled = offlineQueue.isAutoSyncEnabled

\* pass s goes on to a request for an operation that was cleared
SendsCleared(s) ==
  /\ passes'[s] # passes[s]
  /\ passes'[s].pc = "send"
  /\ CurrentItem(passes'[s]).id \in cleared

\* C30: clear() empties the live queue, the pending uploads, the conflicts
\* and the corrupted markers and leaves the sync status, the retry counter
\* and the auto-sync flag unchanged; called while a drain pass is in
\* progress, no cleared operation is sent afterwards and the pass adds no
\* conflict entry and no corrupted marker for a cleared operation.
C30_ClearStopsDrain ==
  /\ [][ClearEmpties]_vars
  /\ [][\A s \in Slots : ~SendsCleared(s)]_vars
  /\ [](\A id \in cleared : NeverConflicted(id) /\ id \notin Corrupted)

\* what clear() does to the slice, whatever the passes do afterwards
C30_ClearEmptiesSlice == [][ClearEmpties]_vars

\* a cleared operation that a running pass held was sent after the reset
\* and, failing for the last time, marked corrupted
C30_ClearedMarkedCorrupted ==
  \E id \in cleared : id \in Corrupted /\ ~InQueue(id)

====
